---------------------------- MODULE Spec2Model ----------------------------
(***************************************************************************)
(* Verification model of the energy-consumption disaggregator              *)
(* (src/src/data_processing/consumption.py, temporal.py).                  *)
(*                                                                         *)
(* Four components are modelled, each with its own specification:          *)
(*   SpecResolver : resolve_ugr_industry_sector_ranges_by_employees        *)
(*   SpecSelfGen  : calculate_self_generation                              *)
(*   SpecTemporal : disaggregate_temporal_industry                         *)
(*   SpecEngine   : calculate_iteratively_industry_regional_consumption    *)
(*                                                                         *)
(* Numbers.  The one-shot functions (resolver, self generation, temporal   *)
(* disaggregation) are computed in exact rational arithmetic: a rational   *)
(* is a pair <<n, d>> with d > 0 in lowest terms.  NaN, where pandas       *)
(* produces it, is the value NaN below.                                    *)
(***************************************************************************)
EXTENDS Integers, Sequences, FiniteSets, TLC

VARIABLES
    \* ---- resolver (consumption.py:189-268)
    rs_table,   \* ugr_data_ranges: sequence of rows [hy, a, b, val]
    rs_emp,     \* employees_by_WZ: national employees per sector code
    rs_i,       \* number of rows of rs_table already processed by the loop
    rs_out,     \* consumption_by_wz: function label -> row values
    rs_pc,      \* "idle" | "loop" | "returned" | "raised"
    \* ---- self generation (consumption.py:359-428)
    sg_in,      \* the arguments: consumption_df, decomposition_factors, total
    sg_df,      \* df: the enriched table, one record of columns per sector
    sg_pc,      \* "idle" | "start" | "returned"
    \* ---- temporal disaggregation, industry (temporal.py:17-180)
    ti_data,    \* consumption_data: [region -> [column -> annual value]]
    ti_dropna,  \* whether DataFrame.stack() of the installed pandas drops NaN
    ti_i,       \* number of entries of consumption_stacked already visited
    ti_results, \* disaggregated_results: (region, sector) -> time series
    ti_pc,      \* "idle" | "loop" | "raised_nan" | "returned_empty"
                \* | "raised_total" | "returned"
    \* ---- reconciliation engine (consumption.py:630-1187)
    eng_in,     \* the three argument tables: [ugr, jevi, emp]
    eng_pc,     \* "idle" | "start" | "carrier" | "outer" | "region" | "sector"
                \* | "finish" | "raised_petrol" | "raised_nan"
                \* | "raised_total" | "returned"
    eng_et,     \* position in ET of the carrier being adjusted
    eng_iterations, \* iterations_power / _gas / _petrol of that carrier
    eng_i,      \* pass counter i of the region-axis loop
    eng_k,      \* pass counter k of the sector-axis loop
    eng_spez,   \* spez_*_angepasst of that carrier: [sector -> [region -> x]]
    eng_last,   \* what the last pass of a loop did
    eng_done,   \* per finished carrier: its spez_*_angepasst and eng_last
    eng_lk,     \* after line 1151: spez_*_lk and total_*_consumption
    \* ---- temporal disaggregation, CTS power (temporal.py:420-516)
    pcts_data,  \* consumption_data: [region -> [sector -> annual value]]
    pcts_s,     \* number of states the loop has finished
    pcts_DF,    \* DF: (region, sector) -> time series
    pcts_pc,    \* "idle" | "states" | "raised_empty" | "raised_assert"
                \* | "returned"
    \* ---- calendar builders (temporal.py:544-622, 839-905, 1211-1277)
    cal_in,     \* the year and state: [jan1, leap, holidays]
    cal_out,    \* builder -> its table of day types, once it has run
    \* ---- daily gas profiles of CTS (temporal.py:1076-1208)
    gd_in,      \* the arguments: [annual, h, fw, hist]
    gd_dropna,  \* whether DataFrame.stack() of the installed pandas drops NaN
    gd_j,       \* number of profiles the loop has finished
    gd_tw,      \* tageswerte: (region, sector) -> daily values
    gd_pc,      \* "idle" | "loop" | "raised_length" | "raised_nan"
                \* | "raised_empty" | "raised_zero" | "raised_rows"
                \* | "returned"
    \* ---- cached pipeline stages (pipe_consumption.py:13-224,
    \*      temporal.py:1019-1073, consumption.py:271-356)
    cc_cache,   \* the cache directory: key of a file -> its table
    cc_gas,     \* years of the gas industry self-consumption cache
    cc_runs,    \* number of computations so far
    cc_log,     \* the finished calls, in order
    \* ---- data-access functions with a year range (api_reader.py:134-260,
    \*      households.py:19-65)
    yr_call,    \* the function called and its arguments
    yr_queries, \* the queries issued to the API
    yr_pc,      \* "idle" | "raised_value" | "raised_api" | "returned"
    \* ---- shift load profiles (temporal.py:544-801)
    sp_in,      \* the calendar of state and year, and the argument low
    sp_out,     \* the returned table
    sp_pc,      \* "idle" | "called" | "returned"
    \* ---- temperature classes of disagg_temporal_heat_CTS
    \*      (temporal.py:240-275)
    ht_in,      \* the allocation temperatures of the regions of a state
    ht_t,       \* t_allo_df
    ht_col,     \* position of "for col in t_allo_df.columns"
    ht_pc,      \* "idle" | "loop" | "raised_readonly" | "done"
    \* ---- gas industry self-consumption cache (consumption.py:271-356)
    gs_cache,   \* rows of the cache file
    gs_log      \* the last call

rsVars == <<rs_table, rs_emp, rs_i, rs_out, rs_pc>>

sgVars == <<sg_in, sg_df, sg_pc>>

tiVars == <<ti_data, ti_dropna, ti_i, ti_results, ti_pc>>

engVars == <<eng_in, eng_pc, eng_et, eng_iterations, eng_i, eng_k, eng_spez,
            eng_last, eng_done, eng_lk>>

pctsVars == <<pcts_data, pcts_s, pcts_DF, pcts_pc>>

calVars == <<cal_in, cal_out>>

gdVars == <<gd_in, gd_dropna, gd_j, gd_tw, gd_pc>>

ccVars == <<cc_cache, cc_gas, cc_runs, cc_log>>

yrVars == <<yr_call, yr_queries, yr_pc>>

spVars == <<sp_in, sp_out, sp_pc>>

htVars == <<ht_in, ht_t, ht_col, ht_pc>>

gsVars == <<gs_cache, gs_log>>

vars == <<rs_table, rs_emp, rs_i, rs_out, rs_pc, sg_in, sg_df, sg_pc,
          ti_data, ti_dropna, ti_i, ti_results, ti_pc,
          eng_in, eng_pc, eng_et, eng_iterations, eng_i, eng_k, eng_spez,
          eng_last, eng_done, eng_lk,
          pcts_data, pcts_s, pcts_DF, pcts_pc,
          cal_in, cal_out,
          gd_in, gd_dropna, gd_j, gd_tw, gd_pc,
          cc_cache, cc_gas, cc_runs, cc_log,
          yr_call, yr_queries, yr_pc,
          sp_in, sp_out, sp_pc,
          ht_in, ht_t, ht_col, ht_pc,
          gs_cache, gs_log>>

\* what the actions of one component leave alone
rsOthers ==
    <<sgVars, tiVars, engVars, pctsVars, calVars, gdVars, ccVars, yrVars,
      spVars, htVars, gsVars>>

sgOthers ==
    <<rsVars, tiVars, engVars, pctsVars, calVars, gdVars, ccVars, yrVars,
      spVars, htVars, gsVars>>

tiOthers ==
    <<rsVars, sgVars, engVars, pctsVars, calVars, gdVars, ccVars, yrVars,
      spVars, htVars, gsVars>>

engOthers ==
    <<rsVars, sgVars, tiVars, pctsVars, calVars, gdVars, ccVars, yrVars,
      spVars, htVars, gsVars>>

pctsOthers ==
    <<rsVars, sgVars, tiVars, engVars, calVars, gdVars, ccVars, yrVars,
      spVars, htVars, gsVars>>

calOthers ==
    <<rsVars, sgVars, tiVars, engVars, pctsVars, gdVars, ccVars, yrVars,
      spVars, htVars, gsVars>>

gdOthers ==
    <<rsVars, sgVars, tiVars, engVars, pctsVars, calVars, ccVars, yrVars,
      spVars, htVars, gsVars>>

ccOthers ==
    <<rsVars, sgVars, tiVars, engVars, pctsVars, calVars, gdVars, yrVars,
      spVars, htVars, gsVars>>

yrOthers ==
    <<rsVars, sgVars, tiVars, engVars, pctsVars, calVars, gdVars, ccVars,
      spVars, htVars, gsVars>>

spOthers ==
    <<rsVars, sgVars, tiVars, engVars, pctsVars, calVars, gdVars, ccVars,
      yrVars, htVars, gsVars>>

htOthers ==
    <<rsVars, sgVars, tiVars, engVars, pctsVars, calVars, gdVars, ccVars,
      yrVars, spVars, gsVars>>

gsOthers ==
    <<rsVars, sgVars, tiVars, engVars, pctsVars, calVars, gdVars, ccVars,
      yrVars, spVars, htVars>>

-----------------------------------------------------------------------------
(* Exact rational arithmetic *)

Abs(x) == IF x < 0 THEN -x ELSE x

Max(x, y) == IF x >= y THEN x ELSE y

Min(x, y) == IF x <= y THEN x ELSE y

RECURSIVE GCD(_, _)
GCD(a, b) == IF b = 0 THEN a ELSE GCD(b, a % b)

\* the rational n/d in lowest terms with a positive denominator (d # 0)
Rat(n, d) ==
    LET g == GCD(Abs(n), Abs(d))
        s == IF d < 0 THEN -1 ELSE 1
    IN  <<s * (n \div g), s * (d \div g)>>

RInt(n) == <<n, 1>>

RZero == <<0, 1>>

ROne == <<1, 1>>

RAdd(x, y) == Rat(x[1] * y[2] + y[1] * x[2], x[2] * y[2])

RSub(x, y) == Rat(x[1] * y[2] - y[1] * x[2], x[2] * y[2])

RMul(x, y) ==
    LET g1 == GCD(Abs(x[1]), y[2])
        g2 == GCD(Abs(y[1]), x[2])
    IN  <<(x[1] \div g1) * (y[1] \div g2), (x[2] \div g2) * (y[2] \div g1)>>

\* x / y for y # 0
RDiv(x, y) == RMul(x, Rat(y[2], y[1]))

RLeq(x, y) == x[1] * y[2] <= y[1] * x[2]

RLt(x, y) == x[1] * y[2] < y[1] * x[2]

RAbs(x) == <<Abs(x[1]), x[2]>>

RMax(x, y) == IF RLeq(y, x) THEN x ELSE y

\* sum of f[k] over the finite set S of keys, f[k] rational
RECURSIVE RSum(_, _)
RSum(f, S) ==
    IF S = {} THEN RZero
    ELSE LET k == CHOOSE k \in S : TRUE
         IN  RAdd(f[k], RSum(f, S \ {k}))

\* sum of f[k] over the finite set S of keys, f[k] integer
RECURSIVE ISum(_, _)
ISum(f, S) ==
    IF S = {} THEN 0
    ELSE LET k == CHOOSE k \in S : TRUE
         IN  f[k] + ISum(f, S \ {k})

-----------------------------------------------------------------------------
(***************************************************************************)
(* Rationals extended with the IEEE values the divisions of pandas         *)
(* produce: NaN is <<0, 0>>, +inf is <<1, 0>>, -inf is <<-1, 0>>.          *)
(***************************************************************************)

XNaN == <<0, 0>>

XInf(sign) == <<sign, 0>>

IsNaN(x) == x = XNaN

IsFin(x) == x[2] # 0

Sign(n) == IF n > 0 THEN 1 ELSE IF n < 0 THEN -1 ELSE 0

XAdd(x, y) ==
    IF IsNaN(x) \/ IsNaN(y) THEN XNaN
    ELSE IF IsFin(x) /\ IsFin(y) THEN RAdd(x, y)
    ELSE IF IsFin(x) THEN y
    ELSE IF IsFin(y) THEN x
    ELSE IF x = y THEN x ELSE XNaN

XNeg(x) == <<-x[1], x[2]>>

XSub(x, y) == XAdd(x, XNeg(y))

XMul(x, y) ==
    IF IsNaN(x) \/ IsNaN(y) THEN XNaN
    ELSE IF IsFin(x) /\ IsFin(y) THEN RMul(x, y)
    ELSE IF x[1] = 0 \/ y[1] = 0 THEN XNaN
    ELSE XInf(Sign(x[1]) * Sign(y[1]))

XDiv(x, y) ==
    IF IsNaN(x) \/ IsNaN(y) THEN XNaN
    ELSE IF IsFin(y) /\ y[1] # 0
         THEN IF IsFin(x) THEN RDiv(x, y) ELSE XInf(x[1] * Sign(y[1]))
    ELSE IF IsFin(y)
         THEN IF x[1] = 0 THEN XNaN ELSE XInf(Sign(x[1]))
    ELSE IF IsFin(x) THEN RZero ELSE XNaN

\* x <= y as IEEE compares: False when either side is NaN
XLeq(x, y) ==
    /\ ~IsNaN(x)
    /\ ~IsNaN(y)
    /\ IF IsFin(x) /\ IsFin(y) THEN RLeq(x, y)
       ELSE IF IsFin(x) THEN y[1] > 0
       ELSE IF IsFin(y) THEN x[1] < 0
       ELSE x[1] <= y[1]

\* Series.sum(): NaN entries are skipped (skipna)
RECURSIVE XSum(_, _)
XSum(f, S) ==
    IF S = {} THEN RZero
    ELSE LET k == CHOOSE k \in S : TRUE
         IN  IF IsNaN(f[k]) THEN XSum(f, S \ {k})
             ELSE XAdd(f[k], XSum(f, S \ {k}))

-----------------------------------------------------------------------------
(***************************************************************************)
(* Sector-range resolver: resolve_ugr_industry_sector_ranges_by_employees  *)
(*                                                                         *)
(* A row label of the input table is [hy, a, b]: hy = TRUE is the          *)
(* hyphenated string "a-b", hy = FALSE the single code a (b = a).  A label *)
(* of the output is an input label copied as it is, or the integer code w  *)
(* of an expanded range, IntLabel(w).  Row values are one rational per     *)
(* carrier column.                                                         *)
(***************************************************************************)

\* sector codes of the bounded tables
Codes == 10 .. 12

\* index of the employment table: every code, or one code absent
EmpDomains == { Codes, Codes \ {12} }

\* largest number of employees of one sector
MaxEmp == 2

\* largest number of rows of the input table
MaxRows == 2

\* carrier columns of the table
Cols == {"power", "gas"}

\* the value 1e-5 of the post-condition, as 1/TolDen
TolDen == 100000

\* row values of the bounded tables (MWh); against the large value a lost
\* row of 7 MWh stays inside the 1e-5 relative tolerance
RowVals ==
    { [power |-> 0, gas |-> 0],
      [power |-> 6, gas |-> 1],
      [power |-> 12 * TolDen, gas |-> 6] }

StrLabel(hy, a, b) == [int |-> FALSE, hy |-> hy, a |-> a, b |-> b]

IntLabel(w) == [int |-> TRUE, hy |-> FALSE, a |-> w, b |-> w]

\* the labels an input index can hold: "a" and "a-b" (a reversed range "b-a"
\* is a string like any other)
InLabels ==
    { StrLabel(FALSE, a, a) : a \in Codes }
    \cup { StrLabel(TRUE, p[1], p[2]) : p \in { q \in Codes \X Codes : q[1] < q[2] } }
    \cup { StrLabel(TRUE, 12, 11) }

InRows == { [label |-> l, val |-> v] : l \in InLabels, v \in RowVals }

\* isinstance(wz_code, str) and "-" in wz_code
IsRange(l) == (~l.int) /\ l.hy

\* employees_by_WZ.get(wz, 0)
EmpGet(emp, w) == IF w \in DOMAIN emp THEN emp[w] ELSE 0

\* range(start_wz, end_wz) : the upper bound left out
WzRangeExclusive(l) == l.a .. (l.b - 1)

\* range(start_wz, end_wz + 1)
WzRange(l) == l.a .. l.b

\* the employees of every sector of the table, not of the range only
TotalEmployeesAll(emp, l) == ISum(emp, DOMAIN emp)

\* total_employees_in_range
TotalEmployeesInRange(emp, l) ==
    ISum([w \in WzRange(l) |-> EmpGet(emp, w)], WzRange(l))

\* row * employee_ratio, for every column
ScaleRow(val, num, den) == [c \in Cols |-> RMul(val[c], Rat(num, den))]

\* the labels one iteration of the loop writes with consumption_by_wz.loc
RowLabels(emp, row) ==
    LET l == row.label
    IN  IF IsRange(l)
        THEN IF TotalEmployeesInRange(emp, l) > 0
             THEN { IntLabel(w) : w \in { v \in WzRange(l) : v \in DOMAIN emp } }
             ELSE { IntLabel(w) : w \in WzRange(l) }
        ELSE {l}

\* the values one iteration of the loop writes at the label x
RowValue(emp, row, x) ==
    LET l   == row.label
        val == [c \in Cols |-> RInt(row.val[c])]
        tot == TotalEmployeesInRange(emp, l)
    IN  IF IsRange(l)
        THEN IF tot > 0
             THEN ScaleRow(val, emp[x.a], tot)
             ELSE ScaleRow(val, 1, Cardinality(WzRange(l)))
        ELSE val

\* consumption_by_wz.loc[label] = values, for every label of the set L
\* (the labels of one input row are distinct, so their order is immaterial)
LocSet(out, L, valOf) ==
    [l \in (DOMAIN out) \cup L |-> IF l \in L THEN valOf[l] ELSE out[l]]

\* the body of the loop over ugr_data_ranges.iterrows() for one row
ResolveRow(out, emp, row) ==
    LocSet(out, RowLabels(emp, row),
           [x \in RowLabels(emp, row) |-> RowValue(emp, row, x)])

\* ugr_data_ranges.sum().sum()
TotalUgr(table) ==
    LET I == 1 .. Len(table)
    IN  ISum([i \in I |-> ISum([c \in Cols |-> table[i].val[c]], Cols)], I)

\* consumption_by_wz.sum().sum()
TotalWz(out) ==
    RSum([l \in DOMAIN out |-> RSum(out[l], Cols)], DOMAIN out)

\* the post-condition with the difference taken without abs()
SumMismatchNoAbs(tu, tw) ==
    LET diff == RSub(tw, tu)
        mx   == RMax(tu, tw)
    IN  /\ mx[1] > 0
        /\ diff[1] * mx[2] > (mx[1] * diff[2]) \div TolDen

\* relative_diff > 0.00001, with relative_diff = |tu - tw| / max(tu, tw);
\* for max = 0 the quotient is NaN (non-negative totals: both are 0) and the
\* comparison is False
SumMismatch(tu, tw) ==
    LET diff == RAbs(RSub(tu, tw))
        mx   == RMax(tu, tw)
    IN  /\ mx[1] > 0
        /\ diff[1] * mx[2] > (mx[1] * diff[2]) \div TolDen

EmptyOut == [l \in {} |-> 0]

\* the components at rest, for the specifications of the other components
RsIdle ==
    /\ rs_table = <<>>
    /\ rs_emp = EmptyOut
    /\ rs_i = 0
    /\ rs_out = EmptyOut
    /\ rs_pc = "idle"

RsInit ==
    /\ rs_table \in UNION { [1 .. n -> InRows] : n \in 1 .. MaxRows }
    /\ rs_emp \in UNION { [D -> 0 .. MaxEmp] : D \in EmpDomains }
    /\ rs_i = 0
    /\ rs_out = EmptyOut
    /\ rs_pc = "loop"

\* one iteration of `for wz_code, row in ugr_data_ranges.iterrows()`
RsProcessRow ==
    /\ rs_pc = "loop"
    /\ rs_i < Len(rs_table)
    /\ rs_out' = ResolveRow(rs_out, rs_emp, rs_table[rs_i + 1])
    /\ rs_i' = rs_i + 1
    /\ UNCHANGED <<rs_table, rs_emp, rs_pc>>
    /\ UNCHANGED rsOthers

\* the validation after the loop: raise ValueError or return consumption_by_wz
RsValidate ==
    /\ rs_pc = "loop"
    /\ rs_i = Len(rs_table)
    /\ rs_pc' = IF SumMismatch(RInt(TotalUgr(rs_table)), TotalWz(rs_out))
                THEN "raised" ELSE "returned"
    /\ UNCHANGED <<rs_table, rs_emp, rs_i, rs_out>>
    /\ UNCHANGED rsOthers

RsNext == RsProcessRow \/ RsValidate

-----------------------------------------------------------------------------
(***************************************************************************)
(* Self-generation adjuster: calculate_self_generation                     *)
(*                                                                         *)
(* sg_in holds, per sector, the columns power[MWh] and gas[MWh] of         *)
(* consumption_df and electricity_self_generation of                       *)
(* decomposition_factors, and the scalar total_gas_self_consuption.        *)
(* sg_df holds, per sector, the columns of the returned table.             *)
(***************************************************************************)

\* sectors of the bounded tables
SgSectors == {24, 25}

\* column values of the bounded tables
SgPowerVals == {0, 4}

SgGasVals == {0, 6}

SgShareVals == { RZero, Rat(1, 4), Rat(1, 2) }

SgTotalVals == {0, 3}

\* df.fillna(0)
FillNaZero(x) == IF IsNaN(x) THEN RZero ELSE x

\* df.fillna(1), for one cell
FillNa(x) == IF IsNaN(x) THEN ROne ELSE x

\* lines 379-415: the columns of df, then fillna(1) over the whole table
SelfGenTable(in) ==
    LET S        == DOMAIN in.power
        power    == [s \in S |-> RInt(in.power[s])]
        gas_no   == [s \in S |-> RInt(in.gas[s])]
        psg      == [s \in S |-> XMul(power[s], in.share[s])]
        psgSum   == XSum(psg, S)
        fsg      == [s \in S |-> XDiv(psg[s], psgSum)]
        gas_only == [s \in S |-> XMul(fsg[s], RInt(in.total))]
        gas_incl == [s \in S |-> XAdd(gas_no[s], gas_only[s])]
        factor   == [s \in S |-> XDiv(gas_no[s], gas_incl[s])]
    IN  [s \in S |->
            [ power_incl_selfgen           |-> FillNa(power[s]),
              gas_no_selfgen               |-> FillNa(gas_no[s]),
              power_self_generation        |-> FillNa(psg[s]),
              factor_selfgen_of_total_power |-> FillNa(fsg[s]),
              gas_only_selfgen             |-> FillNa(gas_only[s]),
              gas_incl_selfgen             |-> FillNa(gas_incl[s]),
              factor_gas_no_selfgen        |-> FillNa(factor[s]) ]]

SgIdle ==
    /\ sg_in = <<>>
    /\ sg_df = <<>>
    /\ sg_pc = "idle"

SgInit ==
    /\ sg_in \in [ power : [SgSectors -> SgPowerVals],
                    gas   : [SgSectors -> SgGasVals],
                    share : [SgSectors -> SgShareVals],
                    total : SgTotalVals ]
    /\ sg_df = <<>>
    /\ sg_pc = "start"

\* the call of calculate_self_generation, up to its return
SgCompute ==
    /\ sg_pc = "start"
    /\ sg_df' = SelfGenTable(sg_in)
    /\ sg_pc' = "returned"
    /\ UNCHANGED sg_in
    /\ UNCHANGED sgOthers

SgNext == SgCompute

-----------------------------------------------------------------------------
(***************************************************************************)
(* Temporal disaggregation of industry: disaggregate_temporal_industry     *)
(*                                                                         *)
(* consumption_data has the regions as index and sector labels (strings,   *)
(* after astype(str)) as columns; an annual value is an integer number of  *)
(* MWh or NaN.  A load profile is a series over the time steps 1..TiSteps  *)
(* of the year, a rational per step.                                       *)
(***************************************************************************)

\* index of consumption_data; state_num = regional_id // 1000
TiRegions == <<11000, 17000>>

\* columns of consumption_data, in order
TiCols == <<"10", "24", "99", "total">>

\* int(col): the columns that parse, with their value (the others raise
\* ValueError)
TiIntOf == ("10" :> 10 @@ "24" :> 24 @@ "99" :> 99)

\* federal_state_dict(): state number -> abbreviation (16 states; the ones
\* the bounded regions can hit)
TiStateMapping == (11 :> "BE")

\* shift_profile_industry(): sector -> name of its shift load profile
TiProfileMapping == (10 :> "S1_WT" @@ 24 :> "S3_WT_SA_SO")

\* number of time steps of the bounded year
TiSteps == 2

\* slp: (state, load profile) -> normalized series, written over the common
\* denominator 4
TiSlp ==
    [ k \in { <<"BE", "S1_WT">>, <<"BE", "S3_WT_SA_SO">> } |->
        IF k[2] = "S1_WT"
        THEN [t \in 1 .. TiSteps |-> IF t = 1 THEN Rat(3, 4) ELSE Rat(1, 4 * (TiSteps - 1))]
        ELSE [t \in 1 .. TiSteps |-> Rat(1, TiSteps)] ]

\* annual values of the bounded tables
TiMappedVals == { RZero, RInt(7), RInt(12 * TolDen), XNaN }

TiOtherVals == { RZero, RInt(7) }

SeqToSet(q) == { q[i] : i \in 1 .. Len(q) }

\* total_consumption_start = consumption_data.sum().sum()
TiTotalStart(data) ==
    LET K == { k \in SeqToSet(TiRegions) \X SeqToSet(TiCols) :
                   k[1] \in DOMAIN data /\ k[2] \in DOMAIN data[k[1]] }
    IN  XSum([k \in K |-> data[k[1]][k[2]]], K)

\* lines 70-81: the columns that parse as an int of profile_mapping
TiIndustryCols ==
    SelectSeq(TiCols, LAMBDA c : c \in DOMAIN TiIntOf
                                 /\ TiIntOf[c] \in DOMAIN TiProfileMapping)

\* the (region, column) pairs of consumption_data[industry_cols], row by row
RECURSIVE TiPairs(_, _)
TiPairs(r, c) ==
    IF r > Len(TiRegions) THEN <<>>
    ELSE IF c > Len(TiIndustryCols) THEN TiPairs(r + 1, 1)
    ELSE <<(<<TiRegions[r], TiIndustryCols[c]>>)>> \o TiPairs(r, c + 1)

\* consumption_stacked = consumption_data_industries.stack(): the entries of
\* the rows and industry columns the table has, in row order; a pandas whose
\* stack() drops missing values leaves NaN out
TiStacked(data, dropna) ==
    SelectSeq(TiPairs(1, 1),
              LAMBDA k : /\ k[1] \in DOMAIN data
                         /\ k[2] \in DOMAIN data[k[1]]
                         /\ ~(dropna /\ IsNaN(data[k[1]][k[2]])))

\* lines 116-120: the lookups of one entry succeed (no KeyError)
TiLookupOk(region, col) ==
    /\ (region \div 1000) \in DOMAIN TiStateMapping
    /\ TiIntOf[col] \in DOMAIN TiProfileMapping
    /\ <<TiStateMapping[region \div 1000], TiProfileMapping[TiIntOf[col]]>>
           \in DOMAIN TiSlp

\* disaggregated_series = profile_series * annual_consumption
TiDisaggregate(region, col, annual) ==
    LET prof == TiSlp[<<TiStateMapping[region \div 1000],
                        TiProfileMapping[TiIntOf[col]]>>]
    IN  [t \in 1 .. TiSteps |-> XMul(prof[t], annual)]

\* total_consumption_end = final_df.sum().sum()
TiTotalEnd(results) ==
    LET K == (DOMAIN results) \X (1 .. TiSteps)
    IN  XSum([k \in K |-> results[k[1]][k[2]]], K)

\* the relative tolerance rtol = 1e-5 of np.isclose, as 1/RtolDen
RtolDen == 100000

\* the absolute tolerance atol = 1e-8 of np.isclose, as 1/(RtolDen * AtolDen)
AtolDen == 1000

\* a comparison that accepts every pair of totals
IsCloseAlways(x, y) == TRUE

\* np.isclose(x, y): |x - y| <= atol + rtol * |y| for finite x, y
IsClose(x, y) ==
    /\ IsFin(x)
    /\ IsFin(y)
    /\ LET d == RAbs(RSub(x, y))
           b == RAbs(y)
       IN  d[1] * b[2] <= (d[2] * b[1] + (d[2] * b[2]) \div AtolDen) \div RtolDen

\* the row sets of the bounded tables: both regions, or one of them
TiIndexes == { SeqToSet(TiRegions) } \cup { {r} : r \in SeqToSet(TiRegions) }

\* the column sets of the bounded tables: every column, or none of the
\* industry columns
TiColumnSets == { SeqToSet(TiCols), SeqToSet(TiCols) \ SeqToSet(TiIndustryCols) }

\* a result set that is never taken for empty
TiNoResultsNever(results) == FALSE

\* not disaggregated_results
TiNoResults(results) == DOMAIN results = {}

TiIdle ==
    /\ ti_data = <<>>
    /\ ti_dropna = FALSE
    /\ ti_i = 0
    /\ ti_results = <<>>
    /\ ti_pc = "idle"

TiInit ==
    /\ \E index \in TiIndexes, columns \in TiColumnSets :
           ti_data \in [ index ->
                           { f \in [columns -> TiMappedVals] :
                               \A c \in columns \ SeqToSet(TiIndustryCols) :
                                   f[c] \in TiOtherVals } ]
    /\ ti_dropna \in BOOLEAN
    /\ ti_i = 0
    /\ ti_results = <<>>
    /\ ti_pc = "loop"

\* one iteration of the loop over consumption_stacked.items(), lines 101-152
TiStep ==
    /\ ti_pc = "loop"
    /\ ti_i < Len(TiStacked(ti_data, ti_dropna))
    /\ LET k      == TiStacked(ti_data, ti_dropna)[ti_i + 1]
           annual == ti_data[k[1]][k[2]]
           key    == <<k[1], TiIntOf[k[2]]>>
       IN  IF IsNaN(annual)
           THEN /\ ti_pc' = "raised_nan"
                /\ UNCHANGED ti_results
           ELSE IF TiLookupOk(k[1], k[2])
           THEN /\ ti_results' =
                      [x \in (DOMAIN ti_results) \cup {key} |->
                          IF x = key THEN TiDisaggregate(k[1], k[2], annual)
                          ELSE ti_results[x]]
                /\ UNCHANGED ti_pc
           ELSE UNCHANGED <<ti_results, ti_pc>>
    /\ ti_i' = ti_i + 1
    /\ UNCHANGED <<ti_data, ti_dropna>>
    /\ UNCHANGED tiOthers

\* after the loop, lines 158-180: the empty cube, or the check of the totals
TiFinish ==
    /\ ti_pc = "loop"
    /\ ti_i = Len(TiStacked(ti_data, ti_dropna))
    /\ ti_pc' = IF TiNoResults(ti_results) THEN "returned_empty"
                ELSE IF IsClose(TiTotalEnd(ti_results), TiTotalStart(ti_data))
                THEN "returned" ELSE "raised_total"
    /\ UNCHANGED <<ti_data, ti_dropna, ti_i, ti_results>>
    /\ UNCHANGED tiOthers

TiNext == TiStep \/ TiFinish

-----------------------------------------------------------------------------
(***************************************************************************)
(* Reconciliation engine:                                                  *)
(* calculate_iteratively_industry_regional_consumption                     *)
(*                                                                         *)
(* The float64 values of the engine are modelled in fixed point: a finite  *)
(* value is <<n, 1>> with n counting units of 1/Scale MWh, every product   *)
(* and quotient is rounded to the nearest unit, and NaN, +inf and -inf are *)
(* the values <<0, 0>>, <<1, 0>> and <<-1, 0>> of the extended rationals,  *)
(* whose sums, differences and comparisons are used as they are.           *)
(***************************************************************************)

\* units per MWh
Scale == 10 ^ 3

\* the integer number n of MWh (or of MWh per employee)
FInt(n) == <<n * Scale, 1>>

\* <<q, r>> with v * a = q * b + r and 0 <= r < b, for v, a >= 0 and b > 0,
\* computed digit by digit (base 16) so that no intermediate value leaves
\* 32 bits
RECURSIVE QuotRem(_, _, _)
QuotRem(v, a, b) ==
    IF a = 0 THEN <<0, 0>>
    ELSE LET h == QuotRem(v, a \div 16, b)
             t == 16 * h[2] + (a % 16) * (v % b)
         IN  <<16 * h[1] + (a % 16) * (v \div b) + (t \div b), t % b>>

\* v * a / b rounded to the nearest integer, for b # 0
MulDiv(v, a, b) ==
    LET qr == QuotRem(Abs(v), Abs(a), Abs(b))
    IN  Sign(v) * Sign(a) * Sign(b)
            * (IF 2 * qr[2] >= Abs(b) THEN qr[1] + 1 ELSE qr[1])

\* v * (a / b), and (v * a) / b, in float64 arithmetic
ScaleBy(v, a, b) ==
    IF IsFin(a) /\ IsFin(b) /\ b[1] # 0
    THEN IF IsFin(v) THEN <<MulDiv(v[1], a[1], b[1]), 1>>
         ELSE XMul(v, <<Sign(a[1]) * Sign(b[1]), 1>>)
    ELSE XMul(v, XDiv(a, b))

\* x < 10 as IEEE compares
BelowFloor(x) ==
    IF IsNaN(x) THEN FALSE
    ELSE IF IsFin(x) THEN x[1] < 10 * Scale
    ELSE x[1] < 0

\* the assignment spez[spez < 10] = 10 left out
ClampNone(x) == x

\* spez[spez < 10] = 10, for one cell
Clamp(x) == IF BelowFloor(x) THEN FInt(10) ELSE x

\* abs(diff / (tot / cnt)) > 1 / den as IEEE compares, tot / cnt being the
\* mean_value of the loop
AbsErrGt(diff, tot, cnt, den) ==
    IF IsNaN(diff) \/ IsNaN(tot) THEN FALSE
    ELSE IF ~IsFin(diff) THEN IsFin(tot)
    ELSE IF ~IsFin(tot) THEN FALSE
    ELSE IF tot[1] = 0 THEN diff[1] # 0
    ELSE Abs(diff[1]) > Abs(tot[1]) \div (cnt * den)

\* the Anpassungsfaktor of one row: 1.0, or a / b where the test holds; exact
\* tells whether the quotient is a whole number of units
Factor(test, a, b) ==
    IF ~test THEN [val |-> <<Scale, 1>>, exact |-> TRUE]
    ELSE IF IsFin(a) /\ IsFin(b) /\ b[1] # 0
    THEN [val   |-> <<MulDiv(Scale, a[1], b[1]), 1>>,
          exact |-> QuotRem(Scale, Abs(a[1]), Abs(b[1]))[2] = 0]
    ELSE [val |-> XDiv(a, b), exact |-> TRUE]

\* Anpassungsfaktor.sum() == target: the sum skips NaN; a quotient that is
\* no whole number of units does not add up to the integer target
FactorSumIs(f, S, target) ==
    /\ \A k \in S : IsNaN(f[k].val) \/ (IsFin(f[k].val) /\ f[k].exact)
    /\ XSum([k \in S |-> f[k].val], S) = FInt(target)

\* np.isclose(x, y, rtol = 1 / rden) with the default atol = 1e-8
IsCloseFx(x, y, rden) ==
    IF IsNaN(x) \/ IsNaN(y) THEN FALSE
    ELSE IF ~IsFin(x) \/ ~IsFin(y) THEN x = y
    ELSE Abs(x[1] - y[1]) <= (Abs(y[1]) + (Scale * rden) \div (10 ^ 8)) \div rden

\* ET = [2, 4, 5]
ET == <<"power", "gas", "petrol">>

\* index of the sector tables (three of the sectors 5..33)
EngSectors == {21, 24, 27}

\* lk_ags, the index of the regional table
EngRegions == {3103, 11000}

\* sv_ind_branches, gv_ind_branches, petro_ind_branches
IndBranches(et) ==
    IF et = "power"
    THEN (5 .. 20) \cup {22, 23, 24, 25, 27, 28, 29, 33}
    ELSE (5 .. 25) \cup {30}

\* every row taken for energy-intensive
EIntAll(et) == EngSectors

\* the energy-intensive rows of the bounded tables
EInt(et) == IndBranches(et) \cap EngSectors

\* the rows summed into "Verbrauch e-arme WZ"
EArme(et) ==
    (IF et = "power" THEN {21, 26, 30, 31, 32} ELSE {26, 27, 28, 31, 32, 33})
        \cap EngSectors

\* the sum the region-axis loop compares its factors with: 401 for power and
\* 400 for gas and petrol, written for the 400 districts of the real tables
\* and scaled here to the regions of the bounded tables
ExitSum(et) ==
    IF et = "power" THEN Cardinality(EngRegions) + 1
    ELSE Cardinality(EngRegions)

\* iterations_power = iterations_gas = iterations_petrol = 8
Iterations == 8

\* i < 10 and k < 10
PassLimit == 10

\* the test left out: a loop that only the sum of its factors ends
WithinBudgetAlways(n) == TRUE

\* "elif i < 10" and "elif k < 10": the pass n may still correct
WithinBudget(n) == n < PassLimit

\* the loop that follows the region-axis loop, were the sector-axis loop
\* left out
EngAfterRegionSkip == "outer"

\* the loop that follows the region-axis loop "while y": "while z"
EngAfterRegion == "sector"

\* abs(error) > 0.1 of the region axis, as 1 / RegionTolDen
RegionTolDen == 10

\* abs(error) > 0.01 of the sector axis, as 1 / SectorTolDen
SectorTolDen == 100

\* rtol = 0.01 of the final validation, as 1 / ValidationTolDen
ValidationTolDen == 100

\* the UGR column of a carrier: power_incl_selfgen, gas_incl_selfgen, petrol
UgrOf(in, et) == [s \in EngSectors |-> FInt(in.ugr[et][s])]

\* total_employees_per_sector
TotalEmployees(in, s) == ISum(in.emp[s], EngRegions)

\* spez_sv, spez_gv, spez_petro: UGR total over national employment
SpezOf(in, et) ==
    [s \in EngSectors |->
        LET n == TotalEmployees(in, s)
            u == UgrOf(in, et)[s]
        IN  IF n # 0 THEN <<MulDiv(u[1], 1, n), 1>> ELSE XDiv(u, RInt(n))]

\* spez_*_lk before the iterations: the national value in every region
SpezLk(in, et) == [s \in EngSectors |-> [r \in EngRegions |-> SpezOf(in, et)[s]]]

\* bze * spez over the rows S: absolute consumption per sector and region
Cube(in, spez, S) ==
    [s \in S |-> [r \in EngRegions |-> XMul(RInt(in.emp[s][r]), spez[s][r])]]

\* DataFrame.sum(): the column sums
ColSum(m, S, r) == XSum([s \in S |-> m[s][r]], S)

\* DataFrame.sum(axis=1): the row sums
RowSum(m, s) == XSum(m[s], EngRegions)

\* total_petrol and total_total_jevi
TotalPetrol(in) == XSum(UgrOf(in, "petrol"), EngSectors)

TotalJevi(in) == XSum([r \in EngRegions |-> FInt(in.jevi["total"][r])], EngRegions)

\* "Verbrauch in MWh" of sv_LK_real, gv_LK_real, petro_LK_real
VerbrauchOf(in, et) ==
    [r \in EngRegions |->
        IF et = "petrol"
        THEN ScaleBy(FInt(in.jevi["total"][r]), TotalPetrol(in), TotalJevi(in))
        ELSE FInt(in.jevi[et][r])]

\* the sanity check of line 679
PetrolSane(in) ==
    IsCloseFx(XSum(VerbrauchOf(in, "petrol"), EngRegions), TotalPetrol(in),
              RtolDen)

\* "Verbrauch e-int WZ": the regional total less the e-arme rows
RealEInt(in, et) ==
    [r \in EngRegions |->
        XSub(VerbrauchOf(in, et)[r],
             ColSum(Cube(in, SpezLk(in, et), EArme(et)), EArme(et), r))]

\* "SV Modell e-int [MWh]": the column sums of the energy-intensive cube
RegionModel(in, et, spez) ==
    [r \in EngRegions |-> ColSum(Cube(in, spez, EInt(et)), EInt(et), r)]

\* abs("Normierter relativer Fehler") > 0.1 for region r
RegionTest(in, et, spez, r) ==
    AbsErrGt(XSub(RealEInt(in, et)[r], RegionModel(in, et, spez)[r]),
             XSum(RealEInt(in, et), EngRegions),
             Cardinality(EngRegions), RegionTolDen)

\* the column "Anpassungsfaktor" of the region axis
RegionFactor(in, et, spez) ==
    [r \in EngRegions |->
        Factor(RegionTest(in, et, spez, r),
               RealEInt(in, et)[r], RegionModel(in, et, spez)[r])]

\* the correction of the region axis: multiply every column by its factor,
\* clamp at 10, rescale by sum(real) / sum(model)
RegionStep(in, et, spez) ==
    LET real  == RealEInt(in, et)
        model == RegionModel(in, et, spez)
        rsum  == XSum(real, EngRegions)
        msum  == XSum(model, EngRegions)
    IN  [s \in EInt(et) |-> [r \in EngRegions |->
            ScaleBy(Clamp(IF RegionTest(in, et, spez, r)
                          THEN ScaleBy(spez[s][r], real[r], model[r])
                          ELSE spez[s][r]),
                    rsum, msum)]]

\* "SV WZ Modell [MWh]": the row sums of the energy-intensive cube
SectorModel(in, et, spez) ==
    [s \in EInt(et) |-> RowSum(Cube(in, spez, EInt(et)), s)]

\* abs("Normierter relativer Fehler") > 0.1 for sector s
SectorTestLoose(in, et, spez, s) ==
    AbsErrGt(XSub(UgrOf(in, et)[s], SectorModel(in, et, spez)[s]),
             XSum(UgrOf(in, et), EInt(et)),
             Cardinality(EInt(et)), RegionTolDen)

\* abs("Normierter relativer Fehler") > 0.01 for sector s
SectorTest(in, et, spez, s) ==
    AbsErrGt(XSub(UgrOf(in, et)[s], SectorModel(in, et, spez)[s]),
             XSum(UgrOf(in, et), EInt(et)),
             Cardinality(EInt(et)), SectorTolDen)

\* the column "Anpassungsfaktor" of the sector axis
SectorFactor(in, et, spez) ==
    [s \in EInt(et) |->
        Factor(SectorTest(in, et, spez, s),
               UgrOf(in, et)[s], SectorModel(in, et, spez)[s])]

\* the correction of the sector axis: multiply every row by its factor and
\* clamp at 10
SectorStep(in, et, spez) ==
    LET model == SectorModel(in, et, spez)
    IN  [s \in EInt(et) |-> [r \in EngRegions |->
            Clamp(IF SectorTest(in, et, spez, s)
                  THEN ScaleBy(spez[s][r], UgrOf(in, et)[s], model[s])
                  ELSE spez[s][r])]]

\* the adjusted rows written back, without line 1138
SpezLkFinalUnpatched(in, done, et) ==
    [s \in EngSectors |-> [r \in EngRegions |->
        IF s \in EInt(et) THEN done[et].spez[s][r] ELSE SpezOf(in, et)[s]]]

\* lines 1132-1142: the adjusted rows written back into spez_*_lk, and for
\* gas the column of Wolfsburg set to the national values
SpezLkFinal(in, done, et) ==
    [s \in EngSectors |-> [r \in EngRegions |->
        IF et = "gas" /\ r = 3103 THEN SpezOf(in, et)[s]
        ELSE IF s \in EInt(et) THEN done[et].spez[s][r]
        ELSE SpezOf(in, et)[s]]]

\* total_*_consumption.isnull().any().any(); without a region 3103 the
\* assignment of line 1138 adds a column that the employment table lacks
HasNaN(total, et) ==
    \/ \E s \in EngSectors, r \in EngRegions : IsNaN(total[s][r])
    \/ et = "gas" /\ 3103 \notin EngRegions

\* total_*_consumption.sum().sum()
CubeSum(total) ==
    XSum([r \in EngRegions |-> ColSum(total, EngSectors, r)], EngRegions)

\* the comparison of the totals left out
ValidatedAlways(in, total, et) == TRUE

\* the three np.isclose validations of lines 1162-1185
Validated(in, total, et) ==
    IsCloseFx(XSum(UgrOf(in, et), EngSectors), CubeSum(total[et]),
              ValidationTolDen)

\* values of the bounded tables: MWh per sector, MWh per region, employees
\* per sector as <<region 3103, region 11000>>
EngUgrVals == [s \in EngSectors |-> IF s = 21 THEN {1000} ELSE {0, 1000}]

EngJeviVals == [r \in EngRegions |-> IF r = 3103 THEN {0, 1000} ELSE {1000, 2000}]

EngEmpVals ==
    [s \in EngSectors |->
        IF s = 21 THEN {<<1, 3>>, <<0, 0>>}
        ELSE IF s = 24 THEN {<<3, 1>>, <<1, 1>>}
        ELSE {<<1, 1>>, <<1, 3>>}]

\* the argument tables; the bounded tables hold the same column for the
\* three carriers
EngInputs ==
    { [ugr  |-> [et \in {"power", "gas", "petrol"} |-> u],
       jevi |-> [c \in {"power", "gas", "total"} |-> a],
       emp  |-> [s \in EngSectors |->
                    [r \in EngRegions |-> IF r = 3103 THEN e[s][1] ELSE e[s][2]]]] :
        u \in { f \in [EngSectors -> UNION { EngUgrVals[s] : s \in EngSectors }] :
                    \A s \in EngSectors : f[s] \in EngUgrVals[s] },
        a \in { f \in [EngRegions -> UNION { EngJeviVals[r] : r \in EngRegions }] :
                    \A r \in EngRegions : f[r] \in EngJeviVals[r] },
        e \in { f \in [EngSectors -> UNION { EngEmpVals[s] : s \in EngSectors }] :
                    \A s \in EngSectors : f[s] \in EngEmpVals[s] } }

EngIdle ==
    /\ eng_in = <<>>
    /\ eng_pc = "idle"
    /\ eng_et = 0
    /\ eng_iterations = 0
    /\ eng_i = 0
    /\ eng_k = 0
    /\ eng_spez = <<>>
    /\ eng_last = "none"
    /\ eng_done = <<>>
    /\ eng_lk = <<>>

EngInit ==
    /\ eng_in \in EngInputs
    /\ eng_pc = "start"
    /\ eng_et = 0
    /\ eng_iterations = 0
    /\ eng_i = 0
    /\ eng_k = 0
    /\ eng_spez = <<>>
    /\ eng_last = "none"
    /\ eng_done = <<>>
    /\ eng_lk = <<>>

\* lines 655-858: the data preparation, with the sanity check of the petrol
\* normalisation
EngPrepare ==
    /\ eng_pc = "start"
    /\ IF PetrolSane(eng_in)
       THEN eng_pc' = "carrier" /\ eng_et' = 1
       ELSE eng_pc' = "raised_petrol" /\ eng_et' = eng_et
    /\ UNCHANGED <<eng_in, eng_iterations, eng_i, eng_k, eng_spez, eng_last,
                   eng_done, eng_lk>>
    /\ UNCHANGED engOthers

\* the head of a branch of "for et in ET": spez_*_angepasst is a copy of the
\* energy-intensive rows of spez_*_lk
EngCarrier ==
    /\ eng_pc = "carrier"
    /\ eng_spez' = [s \in EInt(ET[eng_et]) |-> SpezLk(eng_in, ET[eng_et])[s]]
    /\ eng_iterations' = Iterations
    /\ eng_last' = "none"
    /\ eng_pc' = "outer"
    /\ UNCHANGED <<eng_in, eng_et, eng_i, eng_k, eng_done, eng_lk>>
    /\ UNCHANGED engOthers

\* "while iterations > 0": one more outer iteration
EngOuter ==
    /\ eng_pc = "outer"
    /\ eng_iterations > 0
    /\ eng_iterations' = eng_iterations - 1
    /\ eng_i' = 0
    /\ eng_pc' = "region"
    /\ UNCHANGED <<eng_in, eng_et, eng_k, eng_spez, eng_last, eng_done, eng_lk>>
    /\ UNCHANGED engOthers

\* one pass of "while y", the region axis
EngRegionPass ==
    /\ eng_pc = "region"
    /\ eng_i' = eng_i + 1
    /\ LET et == ET[eng_et]
           f  == RegionFactor(eng_in, et, eng_spez)
       IN  IF FactorSumIs(f, EngRegions, ExitSum(et))
           THEN /\ eng_last' = IF \A r \in EngRegions :
                                    ~RegionTest(eng_in, et, eng_spez, r)
                               THEN "region_converged" ELSE "region_sum"
                /\ eng_pc' = EngAfterRegion
                /\ eng_k' = 0
                /\ UNCHANGED eng_spez
           ELSE IF WithinBudget(eng_i + 1)
           THEN /\ eng_spez' = RegionStep(eng_in, et, eng_spez)
                /\ eng_last' = "region_step"
                /\ UNCHANGED <<eng_pc, eng_k>>
           ELSE /\ eng_last' = "region_budget"
                /\ eng_pc' = EngAfterRegion
                /\ eng_k' = 0
                /\ UNCHANGED eng_spez
    /\ UNCHANGED <<eng_in, eng_et, eng_iterations, eng_done, eng_lk>>
    /\ UNCHANGED engOthers

\* one pass of "while z", the sector axis
EngSectorPass ==
    /\ eng_pc = "sector"
    /\ eng_k' = eng_k + 1
    /\ LET et == ET[eng_et]
           f  == SectorFactor(eng_in, et, eng_spez)
       IN  IF FactorSumIs(f, EInt(et), Cardinality(EInt(et)))
           THEN /\ eng_last' = IF \A s \in EInt(et) :
                                    ~SectorTest(eng_in, et, eng_spez, s)
                               THEN "sector_converged" ELSE "sector_sum"
                /\ eng_pc' = "outer"
                /\ UNCHANGED eng_spez
           ELSE IF WithinBudget(eng_k + 1)
           THEN /\ eng_spez' = SectorStep(eng_in, et, eng_spez)
                /\ eng_last' = "sector_step"
                /\ UNCHANGED eng_pc
           ELSE /\ eng_last' = "sector_budget"
                /\ eng_pc' = "outer"
                /\ UNCHANGED eng_spez
    /\ UNCHANGED <<eng_in, eng_et, eng_iterations, eng_i, eng_done, eng_lk>>
    /\ UNCHANGED engOthers

\* the outer loop of a carrier is over: on to the next carrier of ET
EngCarrierDone ==
    /\ eng_pc = "outer"
    /\ eng_iterations = 0
    /\ eng_done' = [et \in (DOMAIN eng_done) \cup {ET[eng_et]} |->
                       IF et = ET[eng_et]
                       THEN [spez |-> eng_spez, last |-> eng_last]
                       ELSE eng_done[et]]
    /\ IF eng_et < Len(ET)
       THEN eng_et' = eng_et + 1 /\ eng_pc' = "carrier"
       ELSE eng_et' = eng_et /\ eng_pc' = "finish"
    /\ UNCHANGED <<eng_in, eng_iterations, eng_i, eng_k, eng_spez, eng_last,
                   eng_lk>>
    /\ UNCHANGED engOthers

\* lines 1132-1187: the final matrices, the cubes and their validation
EngFinish ==
    /\ eng_pc = "finish"
    /\ LET spez  == [et \in DOMAIN eng_done |-> SpezLkFinal(eng_in, eng_done, et)]
           total == [et \in DOMAIN eng_done |-> Cube(eng_in, spez[et], EngSectors)]
       IN  /\ eng_lk' = [spez |-> spez, total |-> total]
           /\ eng_pc' = IF \E et \in DOMAIN eng_done : HasNaN(total[et], et)
                        THEN "raised_nan"
                        ELSE IF \E et \in DOMAIN eng_done : ~Validated(eng_in, total, et)
                        THEN "raised_total"
                        ELSE "returned"
    /\ UNCHANGED <<eng_in, eng_et, eng_iterations, eng_i, eng_k, eng_spez,
                   eng_last, eng_done>>
    /\ UNCHANGED engOthers

EngNext ==
    \/ EngPrepare
    \/ EngCarrier
    \/ EngOuter
    \/ EngRegionPass
    \/ EngSectorPass
    \/ EngCarrierDone
    \/ EngFinish

-----------------------------------------------------------------------------
(***************************************************************************)
(* Temporal disaggregation of CTS power: disaggregate_temporal_power_CTS   *)
(*                                                                         *)
(* consumption_data has the regions as index and the sectors as columns;   *)
(* an annual value is an integer number of MWh or NaN.  The returned DF    *)
(* maps (region, sector) to a series over the time steps 1..TiSteps.       *)
(***************************************************************************)

\* federal_state_dict(): the entries the bounded regions can hit
PctsStateDict == TiStateMapping @@ (12 :> "BB")

\* federal_state_dict().values(), in order
PctsStates == <<"BE", "BB">>

\* index of consumption_data
PctsRegions == {11000, 12051, 17000}

\* columns of consumption_data
PctsSectors == {35, 47}

\* load_profiles_cts_power(): sector -> name of its standard load profile
PctsLoadProfiles == (35 :> "G3" @@ 47 :> "G0")

\* get_CTS_power_slp(state, year): profile -> series normalized to sum 1
PctsSlp(state) ==
    [ p \in {"G0", "G3"} |->
        IF p = "G0" /\ state = "BE"
        THEN [t \in 1 .. TiSteps |-> IF t = 1 THEN Rat(3, 4) ELSE Rat(1, 4 * (TiSteps - 1))]
        ELSE [t \in 1 .. TiSteps |-> Rat(1, TiSteps)] ]

\* annual values of the bounded tables, per region
PctsVals ==
    [ r \in PctsRegions |->
        IF r = 11000 THEN { RInt(-1), RZero, RInt(7), RInt(12 * TolDen), XNaN }
        ELSE { RZero, RInt(7) } ]

\* column BL of sv_yearly: federal_state_dict().get(int(i[:-3]))
PctsBL(r) ==
    IF (r \div 1000) \in DOMAIN PctsStateDict
    THEN PctsStateDict[r \div 1000] ELSE "None"

\* total_sum = sv_yearly.drop("BL", axis=1).sum().sum()
PctsTotalSum(data) ==
    LET K == PctsRegions \X PctsSectors
    IN  XSum([k \in K |-> data[k[1]][k[2]]], K)

\* .loc[lambda x: x[0] >= 0], after stack(): the entries kept
PctsKeep(x) == ~IsNaN(x) /\ XLeq(RZero, x)

\* the columns LK_WZ of a state that reach np.multiply, over all its
\* profiles
PctsKept(data, state) ==
    { k \in PctsRegions \X PctsSectors :
        PctsBL(k[1]) = state /\ PctsKeep(data[k[1]][k[2]]) }

\* np.multiply(slp_bl[[slp]].values, sv_lk.values), for one column
PctsSeries(data, state, k) ==
    [t \in 1 .. TiSteps |->
        XMul(PctsSlp(state)[PctsLoadProfiles[k[2]]][t], data[k[1]][k[2]])]

\* disagg_sum = DF.sum().sum()
PctsDisaggSum(df) ==
    LET K == (DOMAIN df) \X (1 .. TiSteps)
    IN  XSum([k \in K |-> df[k[1]][k[2]]], K)

PctsIdle ==
    /\ pcts_data = <<>>
    /\ pcts_s = 0
    /\ pcts_DF = <<>>
    /\ pcts_pc = "idle"

PctsInit ==
    /\ pcts_data \in [ PctsRegions ->
                        [PctsSectors -> UNION { PctsVals[r] : r \in PctsRegions }] ]
    /\ \A r \in PctsRegions, w \in PctsSectors : pcts_data[r][w] \in PctsVals[r]
    /\ pcts_s = 0
    /\ pcts_DF = <<>>
    /\ pcts_pc = "states"

\* one pass of the loop over the states, lines 443-505
PctsState ==
    /\ pcts_pc = "states"
    /\ pcts_s < Len(PctsStates)
    /\ LET state == PctsStates[pcts_s + 1]
           kept  == PctsKept(pcts_data, state)
       IN  IF kept = {}
           THEN \* no column left: MultiIndex.from_tuples([]) raises
                /\ pcts_pc' = "raised_empty"
                /\ UNCHANGED pcts_DF
           ELSE /\ pcts_DF' =
                      [k \in (DOMAIN pcts_DF) \cup kept |->
                          IF k \in kept THEN PctsSeries(pcts_data, state, k)
                          ELSE pcts_DF[k]]
                /\ UNCHANGED pcts_pc
    /\ pcts_s' = pcts_s + 1
    /\ UNCHANGED pcts_data
    /\ UNCHANGED pctsOthers

\* the plausibility check and the return, lines 507-516
PctsFinish ==
    /\ pcts_pc = "states"
    /\ pcts_s = Len(PctsStates)
    /\ pcts_pc' = IF IsClose(PctsTotalSum(pcts_data), PctsDisaggSum(pcts_DF))
                  THEN "returned" ELSE "raised_assert"
    /\ UNCHANGED <<pcts_data, pcts_s, pcts_DF>>
    /\ UNCHANGED pctsOthers

PctsNext == PctsState \/ PctsFinish

-----------------------------------------------------------------------------
(***************************************************************************)
(* Calendar builders: the day types of                                     *)
(* get_shift_load_profiles_by_state_and_year, get_CTS_power_slp and        *)
(* gas_slp_weekday_params                                                  *)
(*                                                                         *)
(* A day is its day-of-year number 1..N, N the length of the year; the     *)
(* day N + 1 is January 1 of the following year.  cal_in holds the weekday *)
(* of January 1 (0 = Monday), the leap flag and the days holidays.DE       *)
(* returns for the state and year.  A table maps a day to the set of day   *)
(* type columns that are True for it.                                      *)
(***************************************************************************)

\* number of days of the year
CalLen(in) == IF in.leap THEN 366 ELSE 365

\* datetime.date(year, 12, 24) and datetime.date(year, 12, 31)
CalDec24(in) == CalLen(in) - 7

CalDec31(in) == CalLen(in)

\* x.weekday() of day d
CalWeekday(in, d) == (in.jan1 + d - 1) % 7

\* hd: the day is one of holidays.DE(state=state, years=year)
CalHd(in, d) == d \in in.holidays

\* the years and states of the bounded check: any weekday of January 1,
\* both lengths, and holidays among January 1, December 24, 25 and 31
\* (December 25 is a holiday in every state)
CalInputs ==
    UNION { { [jan1 |-> j, leap |-> l,
               holidays |-> h \cup {(IF l THEN 366 ELSE 365) - 6}] :
                j \in 0 .. 6,
                h \in SUBSET {1, (IF l THEN 366 ELSE 365) - 7,
                              IF l THEN 366 ELSE 365} } :
            l \in BOOLEAN }

\* the day types without the lines that treat December 24 and 31
CalSpecialNone(in, d, types, sat) == types

\* df.loc[mask, [the other columns]] = False; df.loc[mask, sat] = True
CalSpecial(in, d, types, sat) ==
    IF d \in {CalDec24(in), CalDec31(in)} THEN {sat} ELSE types

\* columns workday, saturday, sunday of
\* get_shift_load_profiles_by_state_and_year, lines 598-622
CalShiftTypes(in, d) ==
    CalSpecial(in, d,
        { t \in {"workday", "saturday", "sunday"} :
            \/ t = "workday" /\ CalWeekday(in, d) < 5 /\ ~CalHd(in, d)
            \/ t = "saturday" /\ CalWeekday(in, d) = 5 /\ ~CalHd(in, d)
            \/ t = "sunday" /\ (CalWeekday(in, d) = 6 \/ CalHd(in, d)) },
        "saturday")

\* columns WD, SA, SU of get_CTS_power_slp, lines 880-905; the rows are the
\* quarter hours of the year in UTC converted to Europe/Berlin, so that
\* their column Day runs from January 1 to January 1 of the following year
CalCTSTypes(in, d) ==
    CalSpecial(in, d,
        { t \in {"WD", "SA", "SU"} :
            \/ t = "WD" /\ CalWeekday(in, d) < 5 /\ ~CalHd(in, d)
            \/ t = "SA" /\ CalWeekday(in, d) = 5 /\ ~CalHd(in, d)
            \/ t = "SU" /\ (CalWeekday(in, d) = 6 \/ CalHd(in, d)) },
        "SA")

\* the weekday columns of gas_slp_weekday_params, in the order of weekday()
CalGasCols == <<"MO", "DI", "MI", "DO", "FR", "SA", "SO">>

\* columns MO .. SO of gas_slp_weekday_params, lines 1245-1265
CalGasTypes(in, d) ==
    CalSpecial(in, d,
        { t \in SeqToSet(CalGasCols) :
            IF t = "SO" THEN CalWeekday(in, d) = 6 \/ CalHd(in, d)
            ELSE CalGasCols[CalWeekday(in, d) + 1] = t /\ ~CalHd(in, d) },
        "SA")

\* the table of one builder
CalTable(in, b) ==
    IF b = "shift" THEN [d \in 1 .. CalLen(in) |-> CalShiftTypes(in, d)]
    ELSE IF b = "cts" THEN [d \in 1 .. CalLen(in) + 1 |-> CalCTSTypes(in, d)]
    ELSE [d \in 1 .. CalLen(in) |-> CalGasTypes(in, d)]

CalIdle ==
    /\ cal_in = <<>>
    /\ cal_out = <<>>

CalInit ==
    /\ cal_in \in CalInputs
    /\ cal_out = <<>>

\* a call of get_shift_load_profiles_by_state_and_year(state, low, year)
CalShift ==
    /\ cal_in # <<>>
    /\ "shift" \notin DOMAIN cal_out
    /\ cal_out' = cal_out @@ ("shift" :> CalTable(cal_in, "shift"))
    /\ UNCHANGED cal_in
    /\ UNCHANGED calOthers

\* a call of get_CTS_power_slp(state, year)
CalCTS ==
    /\ cal_in # <<>>
    /\ "cts" \notin DOMAIN cal_out
    /\ cal_out' = cal_out @@ ("cts" :> CalTable(cal_in, "cts"))
    /\ UNCHANGED cal_in
    /\ UNCHANGED calOthers

\* a call of gas_slp_weekday_params(state, year)
CalGas ==
    /\ cal_in # <<>>
    /\ "gas" \notin DOMAIN cal_out
    /\ cal_out' = cal_out @@ ("gas" :> CalTable(cal_in, "gas"))
    /\ UNCHANGED cal_in
    /\ UNCHANGED calOthers

CalNext == CalShift \/ CalCTS \/ CalGas

-----------------------------------------------------------------------------
(***************************************************************************)
(* Daily gas profiles of CTS: disagg_daily_gas_slp_cts                     *)
(*                                                                         *)
(* gd_in holds the arguments for one state: the annual gas consumption of  *)
(* the regions of the state, the h-values h_value computes from the        *)
(* temperatures of the historical weather year (one per region and day of  *)
(* that year), the weekday factors FW_<slp> of gas_slp_weekday_params (one *)
(* per profile and day of the target year) and the length of the           *)
(* historical year.  Days are numbered from 1.                             *)
(***************************************************************************)

\* days_of_year = get_days_of_year(year), of the bounded year
GdDays == 2

\* the regions of the state in gas_consumption
GdRegions == {12051, 12052}

\* the columns of gas_consumption, in order
GdSectors == <<35, 47>>

\* load_profiles_cts_gas(): sector -> name of its gas load profile
GdLoadProfiles == (35 :> "GA" @@ 47 :> "KO")

\* gv_lk["SLP"].unique(): the profiles in the order of their first sector
GdSlps == <<"GA", "KO">>

\* annual values of the bounded tables, per region
GdAnnualVals ==
    [ r \in GdRegions |->
        IF r = 12051 THEN { RZero, RInt(7), XNaN } ELSE { RZero, RInt(12) } ]

\* h-values over the days of a year: constant, or rising with the day
GdHVals == { "flat", "ramp" }

GdH(p, d) == IF p = "flat" THEN RInt(2) ELSE RInt(d)

\* weekday factors over the days of the year: constant, or lower on the
\* last day
GdFwVals == { "flat", "weekend" }

GdFw(p, d) == IF p = "weekend" /\ d = GdDays THEN Rat(1, 2) ELSE ROne

GdInputs ==
    [ annual : { a \in [GdRegions -> [SeqToSet(GdSectors) ->
                          UNION { GdAnnualVals[r] : r \in GdRegions }]] :
                   \A r \in GdRegions, w \in SeqToSet(GdSectors) :
                       a[r][w] \in GdAnnualVals[r] },
      h      : [GdRegions -> GdHVals],
      fw     : [SeqToSet(GdSlps) -> GdFwVals],
      hist   : {GdDays, GdDays + 1} ]

\* tw = np.multiply(h_slp.values, F_wd_slp.values), column of region r
GdTw(in, slp, r) ==
    [d \in 1 .. GdDays |-> XMul(GdH(in.h[r], d), GdFw(in.fw[slp], d))]

\* the weights left as they are
GdNormNone(in, slp, r) == GdTw(in, slp, r)

\* tw_norm = tw / tw.sum(), column of region r
GdNorm(in, slp, r) ==
    LET tw == GdTw(in, slp, r)
    IN  [d \in 1 .. GdDays |-> XDiv(tw[d], XSum(tw, 1 .. GdDays))]

\* the comparison of the lengths left out
GdLengthMismatchNever(in) == FALSE

\* len(h_slp) != len(F_wd_slp)
GdLengthMismatch(in) == in.hist # GdDays

\* the columns (region, sector) of profile slp that the stacked gv_df holds
GdEntries(in, dropna, slp) ==
    { k \in GdRegions \X SeqToSet(GdSectors) :
        /\ GdLoadProfiles[k[2]] = slp
        /\ ~(dropna /\ IsNaN(in.annual[k[1]][k[2]])) }

\* np.multiply(tw_norm[[str(lk)] * n].values, gv_slp.values), one column
GdColumn(in, slp, k) ==
    [d \in 1 .. GdDays |-> XMul(GdNorm(in, slp, k[1])[d], in.annual[k[1]][k[2]])]

\* tageswerte.dropna(how="all").iloc[:days_of_year]: the rows left
GdRows(tw) ==
    { d \in 1 .. GdDays : \E k \in DOMAIN tw : ~IsNaN(tw[k][d]) }

\* df.sum().sum()
GdTotal(tw) ==
    LET K == (DOMAIN tw) \X GdRows(tw)
    IN  XSum([k \in K |-> tw[k[1]][k[2]]], K)

GdIdle ==
    /\ gd_in = <<>>
    /\ gd_dropna = FALSE
    /\ gd_j = 0
    /\ gd_tw = <<>>
    /\ gd_pc = "idle"

GdInit ==
    /\ gd_in \in GdInputs
    /\ gd_dropna \in BOOLEAN
    /\ gd_j = 0
    /\ gd_tw = <<>>
    /\ gd_pc = "loop"

\* one pass of the loop over the profiles, lines 1133-1176
GdSlpPass ==
    /\ gd_pc = "loop"
    /\ gd_j < Len(GdSlps)
    /\ LET slp  == GdSlps[gd_j + 1]
           cols == GdEntries(gd_in, gd_dropna, slp)
       IN  IF GdLengthMismatch(gd_in)
           THEN /\ gd_pc' = "raised_length"
                /\ UNCHANGED gd_tw
           ELSE /\ gd_tw' = [k \in (DOMAIN gd_tw) \cup cols |->
                               IF k \in cols THEN GdColumn(gd_in, slp, k)
                               ELSE gd_tw[k]]
                /\ UNCHANGED gd_pc
    /\ gd_j' = gd_j + 1
    /\ UNCHANGED <<gd_in, gd_dropna>>
    /\ UNCHANGED gdOthers

\* the sanity checks and the return, lines 1178-1208
GdFinish ==
    /\ gd_pc = "loop"
    /\ gd_j = Len(GdSlps)
    /\ gd_pc' =
          IF \E k \in DOMAIN gd_tw : \E d \in GdRows(gd_tw) : IsNaN(gd_tw[k][d])
          THEN "raised_nan"
          ELSE IF DOMAIN gd_tw = {} \/ GdRows(gd_tw) = {} THEN "raised_empty"
          ELSE IF GdTotal(gd_tw) = RZero THEN "raised_zero"
          ELSE IF Cardinality(GdRows(gd_tw)) # GdDays THEN "raised_rows"
          ELSE "returned"
    /\ UNCHANGED <<gd_in, gd_dropna, gd_j, gd_tw>>
    /\ UNCHANGED gdOthers

GdNext == GdSlpPass \/ GdFinish

-----------------------------------------------------------------------------
(***************************************************************************)
(* Cached pipeline stages: get_consumption_data (pipe_consumption.py) and  *)
(* get_shift_load_profiles_by_year (temporal.py)                           *)
(*                                                                         *)
(* A table is a record that tells where its values come from: the          *)
(* function and arguments that computed it, the number run of the          *)
(* computation (0 for a file that was in the cache before the first call), *)
(* whether the total gas self-consumption that went into it was read from  *)
(* its own cache, and whether it is the data frame in memory or the CSV    *)
(* file written from it.  cc_log records every finished call.              *)
(***************************************************************************)

\* number of calls of the bounded check
MaxCalls == 2

\* the years of the calls: a valid one and one outside 2000..2050
CcYears == {2015, 2051}

CcCarriers == {"power", "gas"}

\* the values of the argument low
CcLows == {35, 50}

\* what calculate_iteratively_industry_regional_consumption does with the
\* tables of the year: the outcomes of the engine
CcEngineOutcomes == {"returned", "raised_nan", "raised_total"}

\* keys of the cache files
CcConsumptionKey(year, carrier) == <<"consumption", year, carrier>>

CcSlpKey(year) == <<"slp", year>>

CcKeys ==
    { CcConsumptionKey(2015, c) : c \in CcCarriers } \cup { CcSlpKey(2015) }

\* a file that is in the cache before the first call
CcOldFile(key) ==
    [key |-> key, run |-> 0, low |-> 50, gas_self |-> "fresh", form |-> "csv"]

\* Python's None, where a table is expected
None == [form |-> "None"]

\* load_consumption_data_cache / load_shift_load_profiles_by_year_cache:
\* the table of the file, None without a file
CcLoad(cache, key) == IF key \in DOMAIN cache THEN cache[key] ELSE None

\* consumption_data.to_csv(processed_file)
CcToCsv(table) == [table EXCEPT !.form = "csv"]

\* the year get_total_gas_industry_self_consuption looks up, lines 287-292
CcGasYear(year) ==
    IF year < 2007 THEN 2007 ELSE IF year >= 2020 THEN 2019 ELSE year

\* get_total_gas_industry_self_consuption(year), called with its default
\* force_preprocessing = False: where its value comes from
CcGasSelf(gas, year) == IF CcGasYear(year) \in gas THEN "cache" ELSE "fresh"

\* a call that never writes the cache file
CcFileKept(before, table, returned) == before

\* a call that writes the cache file before its checks
CcFileWritten(before, table, returned) == CcToCsv(table)

\* the cache file after a call that computed: written when the call gets
\* as far as step 4, left as it was when a check raised
CcFileAfter(before, table, returned) ==
    IF returned THEN CcToCsv(table) ELSE before

\* cache' for a file value that may be None
CcStore(cache, key, file) ==
    IF file = None THEN [k \in (DOMAIN cache) \ {key} |-> cache[k]]
    ELSE [k \in (DOMAIN cache) \cup {key} |-> IF k = key THEN file ELSE cache[k]]

CcIdle ==
    /\ cc_cache = <<>>
    /\ cc_gas = {}
    /\ cc_runs = 0
    /\ cc_log = <<>>

CcInit ==
    /\ \E K \in SUBSET CcKeys : cc_cache = [k \in K |-> CcOldFile(k)]
    /\ cc_gas \in SUBSET {2015}
    /\ cc_runs = 0
    /\ cc_log = <<>>

\* a call get_consumption_data(year, energy_carrier, force_preprocessing),
\* pipe_consumption.py:13-72, with
\* get_consumption_data_historical_and_future (114-224) inside it
CcGetConsumptionData ==
    /\ Len(cc_log) < MaxCalls
    /\ \E year \in CcYears, carrier \in CcCarriers, force \in BOOLEAN,
          engine \in CcEngineOutcomes :
          LET key    == CcConsumptionKey(year, carrier)
              before == CcLoad(cc_cache, key)
              call   == [fn |-> "get_consumption_data", year |-> year,
                         arg |-> carrier, force |-> force, before |-> before]
          IN  IF year < 2000 \/ year > 2050
              THEN \* step 0
                   /\ cc_log' = Append(cc_log,
                          call @@ [outcome |-> "raised_input", result |-> None,
                                   recomputed |-> FALSE, after |-> before])
                   /\ UNCHANGED <<cc_cache, cc_gas, cc_runs>>
              ELSE IF ~force /\ before # None
              THEN \* step 1
                   /\ cc_log' = Append(cc_log,
                          call @@ [outcome |-> "returned", result |-> before,
                                   recomputed |-> FALSE, after |-> before])
                   /\ UNCHANGED <<cc_cache, cc_gas, cc_runs>>
              ELSE \* steps 2 to 4
                   LET table == [key |-> key, run |-> cc_runs + 1, low |-> 50,
                                 gas_self |-> CcGasSelf(cc_gas, year),
                                 form |-> "frame"]
                       after == CcFileAfter(before, table, engine = "returned")
                   IN  /\ cc_runs' = cc_runs + 1
                       /\ cc_gas' = cc_gas \cup {CcGasYear(year)}
                       /\ cc_cache' = CcStore(cc_cache, key, after)
                       /\ cc_log' = Append(cc_log,
                              call @@ [outcome |-> engine,
                                       result |-> IF engine = "returned"
                                                  THEN table ELSE None,
                                       recomputed |-> TRUE, after |-> after])
    /\ UNCHANGED ccOthers

\* a call get_shift_load_profiles_by_year(year, low, force_preprocessing),
\* temporal.py:1019-1073
CcGetShiftLoadProfiles ==
    /\ Len(cc_log) < MaxCalls
    /\ \E year \in CcYears, low \in CcLows, force \in BOOLEAN :
          LET key    == CcSlpKey(year)
              before == CcLoad(cc_cache, key)
              call   == [fn |-> "get_shift_load_profiles_by_year",
                         year |-> year, arg |-> low, force |-> force,
                         before |-> before]
          IN  IF year < 2000 \/ year > 2050
              THEN /\ cc_log' = Append(cc_log,
                          call @@ [outcome |-> "raised_input", result |-> None,
                                   recomputed |-> FALSE, after |-> before])
                   /\ UNCHANGED <<cc_cache, cc_runs>>
              ELSE IF ~force /\ before # None
              THEN /\ cc_log' = Append(cc_log,
                          call @@ [outcome |-> "returned", result |-> before,
                                   recomputed |-> FALSE, after |-> before])
                   /\ UNCHANGED <<cc_cache, cc_runs>>
              ELSE LET table == [key |-> key, run |-> cc_runs + 1, low |-> low,
                                 gas_self |-> "fresh", form |-> "frame"]
                       after == CcFileAfter(before, table, TRUE)
                   IN  /\ cc_runs' = cc_runs + 1
                       /\ cc_cache' = CcStore(cc_cache, key, after)
                       /\ cc_log' = Append(cc_log,
                              call @@ [outcome |-> "returned", result |-> table,
                                       recomputed |-> TRUE, after |-> after])
    /\ UNCHANGED cc_gas
    /\ UNCHANGED ccOthers

CcNext == CcGetConsumptionData \/ CcGetShiftLoadProfiles

-----------------------------------------------------------------------------
(***************************************************************************)
(* Data-access functions with a year range: get_temperature_outside_hourly,*)
(* get_power_consumption_by_HH_size, get_income_per_capita (api_reader.py) *)
(* and households_power_consumption (households.py)                        *)
(***************************************************************************)

\* the years of the calls, on both sides of each range
YrYears == 1988 .. 2062

\* the range of years each function has data for
YrRange ==
    [get_temperature_outside_hourly   |-> <<2006, 2019>>,
     get_power_consumption_by_HH_size |-> <<1990, 2060>>,
     get_income_per_capita            |-> <<1995, 2021>>,
     households_power_consumption     |-> <<2018, 2060>>]

\* what get_openffe_data does with a query
YrApiOutcomes == {"returned", "raised_api"}

\* Python's chained comparison lo > year > hi: (lo > year) and (year > hi)
YrChained(lo, year, hi) == lo > year /\ year > hi

\* the comparison year < lo or year > hi
YrOutside(lo, year, hi) == year < lo \/ year > hi

\* the condition of the input validation of function fn
YrInvalid(fn, year) == YrChained(YrRange[fn][1], year, YrRange[fn][2])

YrIdle ==
    /\ yr_call = <<>>
    /\ yr_queries = <<>>
    /\ yr_pc = "idle"

\* the endpoint a function queries
YrEndpoint ==
    [get_temperature_outside_hourly   |-> "demandregio_temporal",
     get_power_consumption_by_HH_size |-> "demandregio_spatial",
     get_income_per_capita            |-> "demandregio_spatial",
     households_power_consumption     |-> "demandregio_spatial"]

\* one call of function fn: the input validations of the functions checks,
\* in the order the call meets them, then the query and its result
YrApiCall(fn, checks, year, use_cache, api) ==
    /\ yr_call' = [fn |-> fn, year |-> year, use_cache |-> use_cache]
    /\ IF \E g \in checks : YrInvalid(g, year)
       THEN /\ yr_queries' = <<>>
            /\ yr_pc' = "raised_value"
       ELSE /\ yr_queries' = <<[endpoint |-> YrEndpoint[fn], year |-> year]>>
            /\ yr_pc' = api

\* api_reader.py:134-175
YrGetTemperatureOutsideHourly ==
    /\ yr_pc = "idle"
    /\ \E year \in YrYears, use_cache \in BOOLEAN, api \in YrApiOutcomes :
          YrApiCall("get_temperature_outside_hourly", {"get_temperature_outside_hourly"}, year, use_cache, api)
    /\ UNCHANGED yrOthers

\* api_reader.py:178-218
YrGetPowerConsumptionByHHSize ==
    /\ yr_pc = "idle"
    /\ \E year \in YrYears, use_cache \in BOOLEAN, api \in YrApiOutcomes :
          YrApiCall("get_power_consumption_by_HH_size", {"get_power_consumption_by_HH_size"}, year, use_cache, api)
    /\ UNCHANGED yrOthers

\* api_reader.py:221-260
YrGetIncomePerCapita ==
    /\ yr_pc = "idle"
    /\ \E year \in YrYears, use_cache \in BOOLEAN, api \in YrApiOutcomes :
          YrApiCall("get_income_per_capita", {"get_income_per_capita"}, year, use_cache, api)
    /\ UNCHANGED yrOthers

\* households.py:19-65: its own validation, then
\* get_power_consumption_by_HH_size(year) with that function's validation
YrHouseholdsPowerConsumption ==
    /\ yr_pc = "idle"
    /\ \E year \in YrYears, use_cache \in BOOLEAN, api \in YrApiOutcomes :
          YrApiCall("households_power_consumption",
                    {"households_power_consumption",
                     "get_power_consumption_by_HH_size"},
                    year, use_cache, api)
    /\ UNCHANGED yrOthers

YrNext ==
    \/ YrGetTemperatureOutsideHourly
    \/ YrGetPowerConsumptionByHHSize
    \/ YrGetIncomePerCapita
    \/ YrHouseholdsPowerConsumption

-----------------------------------------------------------------------------
(***************************************************************************)
(* Shift load profiles: get_shift_load_profiles_by_state_and_year          *)
(*                                                                         *)
(* A row of the table is a day of the year and one of its 96 quarter       *)
(* hours, numbered 0..95 from 00:00.  The value of a profile in a row      *)
(* depends on the day only through its day type columns and on the quarter *)
(* hour only through the comparisons with 06:00, 08:00, 16:30 and 23:00,   *)
(* so sp_out holds one value per profile, set of day type columns and      *)
(* segment of the day between those hours.  The values are exact           *)
(* rationals.                                                              *)
(***************************************************************************)

SpProfiles ==
    {"S1_WT", "S1_WT_SA", "S1_WT_SA_SO", "S2_WT", "S2_WT_SA", "S2_WT_SA_SO",
     "S3_WT", "S3_WT_SA", "S3_WT_SA_SO"}

\* values of the argument low
SpLows == {Rat(1, 2), Rat(7, 20), Rat(1, 1), Rat(2, 1)}

\* the segments <<first quarter hour, quarter hour after the last>> of a day
\* between 00:00, 06:00, 08:00, 16:30, 23:00 and 24:00
SpSegments == {<<0, 24>>, <<24, 32>>, <<32, 66>>, <<66, 92>>, <<92, 96>>}

\* the days of the year
SpDays(in) == 1 .. CalLen(in.cal)

\* the sets of day type columns that occur in the year
SpTypeSets(in) == { CalShiftTypes(in.cal, d) : d \in SpDays(in) }

\* len(df[df[column]]): the rows of the days whose column is True
SpRows(in, column) ==
    96 * Cardinality({ d \in SpDays(in) : column \in CalShiftTypes(in.cal, d) })

\* periods = len(df)
SpPeriods(in) == 96 * CalLen(in.cal)

\* the row counts the profiles are built from
SpRowCounts(in) ==
    [workday  |-> SpRows(in, "workday"),
     saturday |-> SpRows(in, "saturday"),
     sunday   |-> SpRows(in, "sunday"),
     periods  |-> SpPeriods(in)]

\* Hour < 08:00 or Hour >= 17:00
SpOff1Late(h) == h < 32 \/ h >= 68

\* Hour < 08:00 or Hour >= 16:30
SpOff1(h) == h < 32 \/ h >= 66

\* Hour < 06:00 or Hour >= 23:00
SpOff2(h) == h < 24 \/ h >= 92

\* anzahl_wz of a profile
SpAnzahlWz(n, sp) ==
    LET wd == RInt(n.workday)
        sa == RInt(n.saturday)
        su == RInt(n.sunday)
    IN  CASE sp = "S1_WT"       -> RMul(Rat(17, 48), wd)
          [] sp = "S1_WT_SA"    -> RAdd(RMul(Rat(17, 48), wd), RMul(Rat(17, 48), sa))
          [] sp = "S1_WT_SA_SO" -> RMul(Rat(17, 48), RAdd(RAdd(wd, su), sa))
          [] sp = "S2_WT"       -> RMul(Rat(17, 24), wd)
          [] sp = "S2_WT_SA"    -> RMul(Rat(17, 24), RAdd(wd, sa))
          [] sp = "S2_WT_SA_SO" -> RMul(Rat(17, 24), RAdd(RAdd(wd, sa), su))
          [] sp = "S3_WT"       -> wd
          [] sp = "S3_WT_SA"    -> RAdd(wd, sa)
          [] sp = "S3_WT_SA_SO" -> RInt(n.periods)

\* anzahl_nwz of a profile
SpAnzahlNwz(n, sp) ==
    LET wd == RInt(n.workday)
        sa == RInt(n.saturday)
        su == RInt(n.sunday)
    IN  CASE sp = "S1_WT"       -> RAdd(RAdd(RMul(Rat(31, 48), wd), su), sa)
          [] sp = "S1_WT_SA"    -> RAdd(RAdd(RMul(Rat(31, 48), wd), su),
                                        RMul(Rat(31, 48), sa))
          [] sp = "S1_WT_SA_SO" -> RMul(Rat(31, 48), RAdd(RAdd(wd, su), sa))
          [] sp = "S2_WT"       -> RAdd(RAdd(RMul(Rat(7, 24), wd), su), sa)
          [] sp = "S2_WT_SA"    -> RAdd(RAdd(RMul(Rat(7, 24), wd), su),
                                        RMul(Rat(7, 24), sa))
          [] sp = "S2_WT_SA_SO" -> RMul(Rat(7, 24), RAdd(RAdd(wd, su), sa))
          [] sp = "S3_WT"       -> RAdd(su, sa)
          [] sp = "S3_WT_SA"    -> su
          [] sp = "S3_WT_SA_SO" -> RZero

\* anteil = 1 / (anzahl_wz + low * anzahl_nwz); 1 / periods for S3_WT_SA_SO
SpAnteil(n, low, sp) ==
    RDiv(ROne, RAdd(SpAnzahlWz(n, sp), RMul(low, SpAnzahlNwz(n, sp))))

\* the rows of a profile that the masks set to low * anteil: types are the
\* day type columns of the row, h is its quarter hour
SpIsLow(sp, types, h) ==
    LET wd == "workday" \in types
        sa == "saturday" \in types
        su == "sunday" \in types
    IN  CASE sp = "S1_WT"       -> (su \/ sa) \/ (wd /\ SpOff1(h))
          [] sp = "S1_WT_SA"    -> su \/ (wd /\ SpOff1(h)) \/ (sa /\ SpOff1(h))
          [] sp = "S1_WT_SA_SO" -> SpOff1(h)
          [] sp = "S2_WT"       -> (su \/ sa) \/ (wd /\ SpOff2(h))
          [] sp = "S2_WT_SA"    -> su \/ ((wd \/ sa) /\ SpOff2(h))
          [] sp = "S2_WT_SA_SO" -> SpOff2(h)
          [] sp = "S3_WT"       -> su \/ sa
          [] sp = "S3_WT_SA"    -> su
          [] sp = "S3_WT_SA_SO" -> FALSE

\* df[sp] = anteil; df.loc[mask, sp] = low * anteil
SpValue(in, sp, types, h, anteil) ==
    IF SpIsLow(sp, types, h) THEN RMul(in.low, anteil) ELSE anteil

\* the returned table
SpTable(in) ==
    LET sets == SpTypeSets(in)
        n    == SpRowCounts(in)
    IN  [sp \in SpProfiles |->
            LET anteil == SpAnteil(n, in.low, sp)
            IN  [c \in sets \X SpSegments |->
                    SpValue(in, sp, c[1], c[2][1], anteil)]]

\* x + y over the least common denominator
SpAdd(x, y) ==
    LET g == GCD(x[2], y[2])
    IN  Rat(x[1] * (y[2] \div g) + y[1] * (x[2] \div g), (x[2] \div g) * y[2])

\* the number of rows of a cell of the table: the days of the type set
\* times the quarter hours of the segment
SpCellRows(in, c) ==
    Cardinality({ d \in SpDays(in) : CalShiftTypes(in.cal, d) = c[1] })
        * (c[2][2] - c[2][1])

\* the number of rows of every cell of the table
SpAllCellRows(in) ==
    [c \in SpTypeSets(in) \X SpSegments |-> SpCellRows(in, c)]

\* df[sp].sum(): the sum of a column over all rows of the year, rows[c]
\* being the number of rows of cell c
RECURSIVE SpSum(_, _, _)
SpSum(col, rows, cells) ==
    IF cells = {} THEN RZero
    ELSE LET c == CHOOSE c \in cells : TRUE
         IN  SpAdd(RMul(RInt(rows[c]), col[c]), SpSum(col, rows, cells \ {c}))

SpIdle ==
    /\ sp_in = <<>>
    /\ sp_out = <<>>
    /\ sp_pc = "idle"

SpInit ==
    /\ sp_in \in [cal : CalInputs, low : SpLows]
    /\ sp_out = <<>>
    /\ sp_pc = "called"

\* get_shift_load_profiles_by_state_and_year(state, low, year) for a valid
\* state
SpBuild ==
    /\ sp_pc = "called"
    /\ sp_out' = SpTable(sp_in)
    /\ sp_pc' = "returned"
    /\ UNCHANGED sp_in
    /\ UNCHANGED spOthers

SpNext == SpBuild

-----------------------------------------------------------------------------
(***************************************************************************)
(* Temperature classes of disagg_temporal_heat_CTS (temporal.py:240-275)   *)
(*                                                                         *)
(* A temperature is a whole number of half degrees Celsius: 1 is 0.5 C,    *)
(* -31 is -15.5 C, 200 is the class 100 of the days above 25 C.  ht_t is   *)
(* the table t_allo_df of one state: one column per region of the state,   *)
(* one row per day.                                                        *)
(***************************************************************************)

\* days of the bounded year
HtDays == 1

\* the regions of the state, in the order of the columns of t_allo_df
HtRegions == <<"12051", "12052">>

\* allocation temperatures, in half degrees: on, just below and just above
\* class boundaries
HtTemps == {-31, -30, -1, 0, 1, 11, 51, 52}

\* the tables of allocation temperatures, and whether Series.values is a
\* read-only view (pandas with copy-on-write) or a writable one
HtInputs ==
    [temps : [1 .. Len(HtRegions) -> [1 .. HtDays -> HtTemps]],
     readonly : BOOLEAN]

\* values[(values > lo) & (values < hi)] = v, for one value
HtAssign(x, lo, hi, v) == IF x > lo /\ x < hi THEN v ELSE x

\* the ten assignments of lines 241-272 in their order, for one value
HtClasses(x) ==
    LET a == IF x < -30 THEN -30 ELSE x
        b == HtAssign(a, -30, -20, -20)
        c == HtAssign(b, -20, -10, -10)
        d == HtAssign(c, -10, 0, 0)
        e == HtAssign(d, 0, 10, 10)
        f == HtAssign(e, 10, 20, 20)
        g == HtAssign(f, 20, 30, 30)
        h == HtAssign(g, 30, 40, 40)
        i == HtAssign(h, 40, 50, 50)
    IN  IF i > 50 THEN 200 ELSE i

\* the cast left out
HtAsInt32None(x) == x

\* astype("int32") of one value: the fraction is cut off, towards zero
HtAsInt32(x) == IF x >= 0 THEN 2 * (x \div 2) ELSE -(2 * ((-x) \div 2))

HtIdle ==
    /\ ht_in = <<>>
    /\ ht_t = <<>>
    /\ ht_col = 0
    /\ ht_pc = "idle"

HtInit ==
    /\ ht_in \in HtInputs
    /\ ht_t = ht_in.temps
    /\ ht_col = 1
    /\ ht_pc = "loop"

\* one pass of "for col in t_allo_df.columns": the assignments to the values
\* of the column, then the cast of the whole table
HtColumn ==
    /\ ht_pc = "loop"
    /\ ht_col <= Len(HtRegions)
    /\ IF ht_in.readonly
       THEN /\ ht_pc' = "raised_readonly"
            /\ UNCHANGED <<ht_t, ht_col>>
       ELSE /\ ht_t' = [c \in 1 .. Len(HtRegions) |-> [d \in 1 .. HtDays |->
                           HtAsInt32(IF c = ht_col THEN HtClasses(ht_t[c][d])
                                     ELSE ht_t[c][d])]]
            /\ ht_col' = ht_col + 1
            /\ UNCHANGED ht_pc
    /\ UNCHANGED ht_in
    /\ UNCHANGED htOthers

\* the loop is over: t_allo_df goes into temp_calender_df
HtDone ==
    /\ ht_pc = "loop"
    /\ ht_col > Len(HtRegions)
    /\ ht_pc' = "done"
    /\ UNCHANGED <<ht_in, ht_t, ht_col>>
    /\ UNCHANGED htOthers

HtNext == HtColumn \/ HtDone

-----------------------------------------------------------------------------
(***************************************************************************)
(* Gas industry self-consumption cache                                     *)
(* (get_total_gas_industry_self_consuption, consumption.py:271-356)        *)
(*                                                                         *)
(* gs_cache is the cache file: the rows (year, gas_industry_self_          *)
(* consumption) in file order.  gs_log records the last call.              *)
(***************************************************************************)

\* requested years: outside 2000..2050, below 2007, inside 2007..2019, above
GsYears == {1999, 2000, 2006, 2007, 2015, 2019, 2020, 2050, 2051}

\* years of the energy balances
GsBalanceYears == {2007, 2015, 2019}

\* cell "Erdgas in Mio kWh" of row 12 of the energy balance, times 1000
GsBalances == {4000, 5000}

GsRows == [year : GsBalanceYears, gas_industry_self_consumption : GsBalances]

\* at most one row per year
GsOneRowPerYear(cache) ==
    \A i, j \in 1 .. Len(cache) : cache[i].year = cache[j].year => i = j

\* cache files with at most one row per year
GsCaches ==
    { c \in UNION { [1 .. n -> GsRows] : n \in 0 .. Cardinality(GsBalanceYears) } :
          GsOneRowPerYear(c) }

\* the year limited to the years of the energy balances
GsClamp(year) ==
    IF year < 2007 THEN 2007
    ELSE IF year >= 2020 THEN 2019
    ELSE year

\* year in cache_df["year"].values
GsHasYear(cache, year) == \E i \in 1 .. Len(cache) : cache[i].year = year

\* cache_df.loc[cache_df["year"] == year, ...].iloc[0]
GsFirst(cache, year) ==
    cache[CHOOSE i \in 1 .. Len(cache) :
              /\ cache[i].year = year
              /\ \A j \in 1 .. i - 1 : cache[j].year # year]
        .gas_industry_self_consumption

\* every row
GsAnyYear(row, year) == TRUE

\* the rows of another year
GsOtherYear(row, year) == row.year # year

\* cache_df[cache_df["year"] != year]
GsWithout(cache, year) == SelectSeq(cache, LAMBDA row : GsOtherYear(row, year))

GsIdle ==
    /\ gs_cache = <<>>
    /\ gs_log = None

GsInit ==
    /\ gs_cache \in GsCaches
    /\ gs_log = None

\* get_total_gas_industry_self_consuption(year, force_preprocessing)
GsGetTotal ==
    \E year \in GsYears, force_preprocessing \in BOOLEAN, balance \in GsBalances :
        LET y == GsClamp(year)
            kept == IF force_preprocessing /\ gs_cache # <<>>
                    THEN GsWithout(gs_cache, y)
                    ELSE gs_cache
            new_row == [year |-> y, gas_industry_self_consumption |-> balance]
        IN  /\ IF year < 2000 \/ year > 2050
               THEN /\ gs_log' = [year |-> year, force |-> force_preprocessing,
                                before |-> gs_cache, outcome |-> "raised",
                                written |-> None, result |-> None]
                    /\ UNCHANGED gs_cache
               ELSE IF /\ ~force_preprocessing
                       /\ gs_cache # <<>>
                       /\ GsHasYear(gs_cache, y)
               THEN /\ gs_log' = [year |-> year, force |-> force_preprocessing,
                                before |-> gs_cache, outcome |-> "cached",
                                written |-> None, result |-> GsFirst(gs_cache, y)]
                    /\ UNCHANGED gs_cache
               ELSE /\ gs_cache' = Append(kept, new_row)
                    /\ gs_log' = [year |-> year, force |-> force_preprocessing,
                                before |-> gs_cache, outcome |-> "computed",
                                written |-> new_row, result |-> balance]
            /\ UNCHANGED gsOthers

GsNext == GsGetTotal

-----------------------------------------------------------------------------
(* Specifications *)

InitResolver ==
    /\ RsInit
    /\ SgIdle
    /\ TiIdle
    /\ EngIdle
    /\ PctsIdle
    /\ CalIdle
    /\ GdIdle
    /\ CcIdle
    /\ YrIdle
    /\ SpIdle
    /\ HtIdle
    /\ GsIdle

SpecResolver == InitResolver /\ [][RsNext]_vars

InitSelfGen ==
    /\ SgInit
    /\ RsIdle
    /\ TiIdle
    /\ EngIdle
    /\ PctsIdle
    /\ CalIdle
    /\ GdIdle
    /\ CcIdle
    /\ YrIdle
    /\ SpIdle
    /\ HtIdle
    /\ GsIdle

SpecSelfGen == InitSelfGen /\ [][SgNext]_vars

InitTemporal ==
    /\ TiInit
    /\ RsIdle
    /\ SgIdle
    /\ EngIdle
    /\ PctsIdle
    /\ CalIdle
    /\ GdIdle
    /\ CcIdle
    /\ YrIdle
    /\ SpIdle
    /\ HtIdle
    /\ GsIdle

SpecTemporal == InitTemporal /\ [][TiNext]_vars

InitEngine ==
    /\ EngInit
    /\ RsIdle
    /\ SgIdle
    /\ TiIdle
    /\ PctsIdle
    /\ CalIdle
    /\ GdIdle
    /\ CcIdle
    /\ YrIdle
    /\ SpIdle
    /\ HtIdle
    /\ GsIdle

SpecEngine == InitEngine /\ [][EngNext]_vars

InitPowerCTS ==
    /\ PctsInit
    /\ RsIdle
    /\ SgIdle
    /\ TiIdle
    /\ EngIdle
    /\ CalIdle
    /\ GdIdle
    /\ CcIdle
    /\ YrIdle
    /\ SpIdle
    /\ HtIdle
    /\ GsIdle

SpecPowerCTS == InitPowerCTS /\ [][PctsNext]_vars

InitCalendar ==
    /\ CalInit
    /\ RsIdle
    /\ SgIdle
    /\ TiIdle
    /\ EngIdle
    /\ PctsIdle
    /\ GdIdle
    /\ CcIdle
    /\ YrIdle
    /\ SpIdle
    /\ HtIdle
    /\ GsIdle

SpecCalendar == InitCalendar /\ [][CalNext]_vars

InitGasDaily ==
    /\ GdInit
    /\ RsIdle
    /\ SgIdle
    /\ TiIdle
    /\ EngIdle
    /\ PctsIdle
    /\ CalIdle
    /\ CcIdle
    /\ YrIdle
    /\ SpIdle
    /\ HtIdle
    /\ GsIdle

SpecGasDaily == InitGasDaily /\ [][GdNext]_vars

InitCache ==
    /\ CcInit
    /\ RsIdle
    /\ SgIdle
    /\ TiIdle
    /\ EngIdle
    /\ PctsIdle
    /\ CalIdle
    /\ GdIdle
    /\ YrIdle
    /\ SpIdle
    /\ HtIdle
    /\ GsIdle

SpecCache == InitCache /\ [][CcNext]_vars

InitYears ==
    /\ YrIdle
    /\ RsIdle
    /\ SgIdle
    /\ TiIdle
    /\ EngIdle
    /\ PctsIdle
    /\ CalIdle
    /\ GdIdle
    /\ CcIdle
    /\ SpIdle
    /\ HtIdle
    /\ GsIdle

SpecYears == InitYears /\ [][YrNext]_vars

InitShiftProfiles ==
    /\ SpInit
    /\ RsIdle
    /\ SgIdle
    /\ TiIdle
    /\ EngIdle
    /\ PctsIdle
    /\ CalIdle
    /\ GdIdle
    /\ CcIdle
    /\ YrIdle
    /\ HtIdle
    /\ GsIdle

SpecShiftProfiles == InitShiftProfiles /\ [][SpNext]_vars

InitHeatClasses ==
    /\ HtInit
    /\ RsIdle
    /\ SgIdle
    /\ TiIdle
    /\ EngIdle
    /\ PctsIdle
    /\ CalIdle
    /\ GdIdle
    /\ CcIdle
    /\ YrIdle
    /\ SpIdle
    /\ GsIdle

SpecHeatClasses == InitHeatClasses /\ [][HtNext]_vars

InitGasCache ==
    /\ GsInit
    /\ RsIdle
    /\ SgIdle
    /\ TiIdle
    /\ EngIdle
    /\ PctsIdle
    /\ CalIdle
    /\ GdIdle
    /\ CcIdle
    /\ YrIdle
    /\ SpIdle
    /\ HtIdle

SpecGasCache == InitGasCache /\ [][GsNext]_vars

-----------------------------------------------------------------------------
(* Claims about the sector-range resolver *)

\* a later processed row of the table writes the label x again
RsOverwritten(i, x) ==
    \E j \in (i + 1) .. rs_i : x \in RowLabels(rs_emp, rs_table[j])

\* C3: whenever the resolver returns, the grand total of the returned table
\* equals the grand total of the input table within 1e-5 relative tolerance
\* (|tu - tw| <= 1e-5 * max(tu, tw)); a table outside the tolerance is never
\* returned, the call raises.
C3_RangeResolutionConservation ==
    LET tu   == RInt(TotalUgr(rs_table))
        tw   == TotalWz(rs_out)
        diff == RAbs(RSub(tu, tw))
        mx   == RMax(tu, tw)
        within == diff[1] * mx[2] <= (mx[1] * diff[2]) \div TolDen
    IN  /\ rs_pc = "returned" => within
        /\ (rs_pc \in {"returned", "raised"} /\ ~within) => rs_pc = "raised"

\* C3 witness: a returned table that resolved a range by employment and whose
\* total differs from the input total, inside the tolerance
C3_Witness ==
    /\ rs_pc = "returned"
    /\ \E i \in 1 .. Len(rs_table) :
          /\ IsRange(rs_table[i].label)
          /\ TotalEmployeesInRange(rs_emp, rs_table[i].label) > 0
    /\ TotalWz(rs_out) # RInt(TotalUgr(rs_table))

\* C4: a range "A-B" whose member sectors have zero total employment yields
\* one output row for every integer code A..B, each holding the range's value
\* divided by the number of codes of the range, for every carrier column
\* (unless a later row of the table writes the same code again).
C4_EqualSplitFallback ==
    \A i \in 1 .. rs_i :
        LET row == rs_table[i]
            A   == row.label.a
            B   == row.label.b
        IN  (row.label.hy /\ \A w \in A .. B : EmpGet(rs_emp, w) = 0)
            => \A w \in A .. B :
                 RsOverwritten(i, IntLabel(w))
                 \/ ( /\ IntLabel(w) \in DOMAIN rs_out
                      /\ \A c \in Cols :
                           rs_out[IntLabel(w)][c] = Rat(row.val[c], B - A + 1) )

\* C4 witness: a returned table with a zero-employment range of several codes
\* and a positive value
C4_Witness ==
    /\ rs_pc = "returned"
    /\ \E i \in 1 .. Len(rs_table) :
          LET row == rs_table[i]
          IN  /\ row.label.hy
              /\ row.label.a < row.label.b
              /\ row.val["power"] > 0
              /\ \A w \in row.label.a .. row.label.b : EmpGet(rs_emp, w) = 0
              /\ ~RsOverwritten(i, IntLabel(row.label.a))

\* C5: the returned table holds only single sector codes (no hyphenated
\* range); every single-code input row is copied unchanged, and every range
\* with positive total employment gives each member sector w (of the
\* employment table) the value range_value * employees(w) / total employees
\* of the range (unless a later row of the table writes the same label again).
C5_ProportionalResolution ==
    /\ \A l \in DOMAIN rs_out : ~l.hy
    /\ \A i \in 1 .. rs_i :
        LET row == rs_table[i]
            A   == row.label.a
            B   == row.label.b
            tot == ISum([w \in A .. B |-> EmpGet(rs_emp, w)], A .. B)
        IN  /\ ~row.label.hy =>
                  \/ RsOverwritten(i, row.label)
                  \/ ( /\ row.label \in DOMAIN rs_out
                       /\ \A c \in Cols :
                            rs_out[row.label][c] = RInt(row.val[c]) )
            /\ (row.label.hy /\ tot > 0) =>
                  \A w \in (A .. B) \cap DOMAIN rs_emp :
                      \/ RsOverwritten(i, IntLabel(w))
                      \/ ( /\ IntLabel(w) \in DOMAIN rs_out
                           /\ \A c \in Cols :
                                rs_out[IntLabel(w)][c] =
                                    Rat(row.val[c] * rs_emp[w], tot) )

\* C5 witness: a returned table made of a copied single-code row and a range
\* split unevenly between two sectors with employees
C5_Witness ==
    /\ rs_pc = "returned"
    /\ \E i, j \in 1 .. Len(rs_table) :
          /\ ~rs_table[i].label.hy
          /\ rs_table[i].val["power"] > 0
          /\ rs_table[j].label.hy
          /\ rs_table[j].val["power"] > 0
          /\ LET A == rs_table[j].label.a
                 B == rs_table[j].label.b
             IN  /\ A < B
                 /\ {A, B} \subseteq DOMAIN rs_emp
                 /\ rs_emp[A] > 0
                 /\ rs_emp[B] > rs_emp[A]
                 /\ rs_out[IntLabel(B)]["power"] # rs_out[IntLabel(A)]["power"]

-----------------------------------------------------------------------------
(* Claims about the self-generation adjuster *)

\* C6: in the returned table, factor_gas_no_selfgen lies in [0, 1] for every
\* sector whose gas_incl_selfgen is positive, and equals 1 for every sector
\* whose gas_incl_selfgen is 0 (non-negative inputs).
C6_SelfGenRatioBounds ==
    sg_pc = "returned" =>
        \A s \in DOMAIN sg_df :
            LET incl == sg_df[s].gas_incl_selfgen
                f    == sg_df[s].factor_gas_no_selfgen
            IN  /\ RLt(RZero, incl) => (IsFin(f) /\ RLeq(RZero, f) /\ RLeq(f, ROne))
                /\ incl = RZero => f = ROne

\* C6 witness: a returned table with a ratio strictly inside (0, 1) for one
\* sector and the filled ratio 1 for a sector without gas
C6_Witness ==
    /\ sg_pc = "returned"
    /\ \E s, t \in DOMAIN sg_df :
          /\ RLt(RZero, sg_df[s].factor_gas_no_selfgen)
          /\ RLt(sg_df[s].factor_gas_no_selfgen, ROne)
          /\ sg_df[t].gas_incl_selfgen = RZero
          /\ sg_df[t].factor_gas_no_selfgen = ROne

\* C7: in the returned table, for every sector gas_incl_selfgen =
\* gas_no_selfgen + gas_only_selfgen, and the gas_only_selfgen values of all
\* sectors sum to the national gas self-generation total.
C7_GasSelfGenAllocation ==
    sg_pc = "returned" =>
        /\ \A s \in DOMAIN sg_df :
              sg_df[s].gas_incl_selfgen =
                  XAdd(sg_df[s].gas_no_selfgen, sg_df[s].gas_only_selfgen)
        /\ XSum([s \in DOMAIN sg_df |-> sg_df[s].gas_only_selfgen], DOMAIN sg_df)
               = RInt(sg_in.total)

-----------------------------------------------------------------------------
(* Claims about the temporal disaggregation of industry *)

TiNaNEntries ==
    { k \in SeqToSet(TiRegions) \X SeqToSet(TiIndustryCols) :
        /\ k[1] \in DOMAIN ti_data
        /\ k[2] \in DOMAIN ti_data[k[1]]
        /\ IsNaN(ti_data[k[1]][k[2]]) }

\* C11: if the annual value of a (region, sector) entry of the input is NaN,
\* the call raises when the loop reaches that entry, the loop stops, and no
\* cube, not even a partial or an empty one, is returned.
C11_NaNRejected ==
    TiNaNEntries # {} => ti_pc \notin {"returned", "returned_empty"}

\* C12: an input with a sector column outside the lookup table (columns
\* "99" and "total") and a region whose state is outside the state table
\* (region 17000), and with no NaN in a sector column, never makes the call
\* raise: the combinations left are returned.
C12_UnmappedExcludedWithoutError ==
    TiNaNEntries = {} => ti_pc \notin {"raised_total", "raised_nan"}

\* the input holds no missing value
TiNoNaN ==
    \A r \in DOMAIN ti_data : \A c \in DOMAIN ti_data[r] : ~IsNaN(ti_data[r][c])

\* C30: when the loop over the combinations ends without a processed
\* combination (every column unmapped, or every combination skipped), the
\* call returns the empty cube and does not compare the totals, also when
\* the annual values of the input sum to a non-zero total.
C30_NothingProcessedReturnsEmptyCube ==
    (/\ ti_pc \in {"returned_empty", "returned", "raised_total"}
     /\ DOMAIN ti_results = {})
    => ti_pc = "returned_empty"

\* every combination of a table without missing values was skipped, and the
\* annual values sum to a non-zero total
C30_Witness ==
    /\ ti_pc = "returned_empty"
    /\ TiNoNaN
    /\ Len(TiStacked(ti_data, ti_dropna)) > 0
    /\ ti_i = Len(TiStacked(ti_data, ti_dropna))
    /\ TiTotalStart(ti_data)[1] > 0

-----------------------------------------------------------------------------
(* Claims about the temporal disaggregation of CTS power *)

\* C13 as stated: whenever disaggregate_temporal_power_CTS returns, the sum
\* of all values of the returned cube equals the sum of all annual values of
\* its input.
C13_PowerCTSTotalExactlyConserved ==
    pcts_pc = "returned" =>
        PctsDisaggSum(pcts_DF) = PctsTotalSum(pcts_data)

\* C13 amended: whenever disaggregate_temporal_power_CTS returns, the sum of
\* all values of the returned cube is within the tolerance of np.isclose of
\* the sum of all annual values of its input (|total_sum - disagg_sum| <=
\* 1e-8 + 1e-5 * |disagg_sum|); a mismatch beyond that tolerance fails the
\* final assertion and nothing is returned.
C13_PowerCTSTotalWithinTolerance ==
    LET total  == PctsTotalSum(pcts_data)
        disagg == PctsDisaggSum(pcts_DF)
        gap    == RAbs(RSub(total, disagg))
        ref    == RAbs(disagg)
        within == gap[1] * ref[2]
                     <= (gap[2] * ref[1] + (gap[2] * ref[2]) \div AtolDen)
                            \div RtolDen
    IN  /\ pcts_pc = "returned" => within
        /\ pcts_pc = "raised_assert" => ~within

\* C13 witness: a returned cube whose total differs from the total of the
\* input (a negative entry was filtered out, or a region has no state)
C13_Witness ==
    /\ pcts_pc = "returned"
    /\ PctsDisaggSum(pcts_DF) # PctsTotalSum(pcts_data)

-----------------------------------------------------------------------------
(* Claims about the calendar builders *)

\* C14: in the table of each of the three calendar builders, December 24 and
\* December 31 of the year carry the Saturday type and no other day type,
\* whatever their weekday and whether or not they are holidays.
C14_SpecialDaysAreSaturdays ==
    \A b \in DOMAIN cal_out : \A d \in {CalDec24(cal_in), CalDec31(cal_in)} :
        cal_out[b][d] = {IF b = "shift" THEN "saturday" ELSE "SA"}

\* C14 witness: the three tables are built for a year whose December 24 is
\* a Sunday and a holiday and whose December 31 is a Sunday
C14_Witness ==
    /\ DOMAIN cal_out = {"shift", "cts", "gas"}
    /\ CalWeekday(cal_in, CalDec24(cal_in)) = 6
    /\ CalDec24(cal_in) \in cal_in.holidays
    /\ CalWeekday(cal_in, CalDec31(cal_in)) = 6

-----------------------------------------------------------------------------
(* Claims about the daily gas profiles of CTS *)

\* C15: in the table disagg_daily_gas_slp_cts returns for a state, every
\* (region, sector) of the state with an annual value has a column, and the
\* daily values of each column sum over the days of the year to the annual
\* value of its (region, sector).
C15_DailyValuesSumToAnnual ==
    gd_pc = "returned" =>
        /\ DOMAIN gd_tw =
              { k \in GdRegions \X SeqToSet(GdSectors) :
                  ~IsNaN(gd_in.annual[k[1]][k[2]]) }
        /\ \A k \in DOMAIN gd_tw :
              XSum(gd_tw[k], 1 .. GdDays) = gd_in.annual[k[1]][k[2]]

\* C15 witness: a returned table with a column of a positive annual value
\* whose daily weights differ from day to day
C15_Witness ==
    /\ gd_pc = "returned"
    /\ \E k \in DOMAIN gd_tw :
          /\ gd_in.annual[k[1]][k[2]] = RInt(7)
          /\ gd_tw[k][1] # gd_tw[k][GdDays]

\* C16: when the number of days of the historical weather year differs from
\* the number of days of the target year, disagg_daily_gas_slp_cts raises
\* the error on the mismatching lengths in the first pass of its loop and
\* returns no table.
C16_LengthMismatchRaises ==
    gd_in.hist # GdDays =>
        /\ gd_pc \in {"loop", "raised_length"}
        /\ gd_pc = "loop" => gd_j = 0
        /\ gd_tw = <<>>

\* C16 witness: the call has raised on a historical year one day longer
\* than the target year
C16_Witness ==
    /\ gd_pc = "raised_length"
    /\ gd_in.hist = GdDays + 1

-----------------------------------------------------------------------------
(* Claims about the cached pipeline stages *)

\* C17: for get_consumption_data and get_shift_load_profiles_by_year called
\* with force_preprocessing = False and returning: when the cache load gave
\* None the result was recomputed and its CSV file is in the cache
\* afterwards; when it gave a table, that table is returned, nothing is
\* recomputed and the cache is left as it was; and a second identical call
\* right after a returning one returns the table of the cache file without
\* recomputing.
C17_CacheMissRecomputesHitReturns ==
    /\ \A i \in 1 .. Len(cc_log) :
          LET c == cc_log[i]
          IN  (~c.force /\ c.outcome = "returned") =>
                  IF c.before = None
                  THEN /\ c.recomputed
                       /\ c.result.run > 0
                       /\ c.after = [c.result EXCEPT !.form = "csv"]
                  ELSE /\ ~c.recomputed
                       /\ c.result = c.before
                       /\ c.after = c.before
    /\ \A i \in 1 .. Len(cc_log) - 1 :
          LET c == cc_log[i]
              d == cc_log[i + 1]
          IN  (/\ ~c.force /\ c.outcome = "returned"
               /\ d.fn = c.fn /\ d.year = c.year /\ d.arg = c.arg
               /\ d.force = c.force) =>
                  /\ d.outcome = "returned"
                  /\ ~d.recomputed
                  /\ d.result = c.after

\* C17 witness: a call that found no cache file, recomputed and saved,
\* followed by the identical call, for each of the two functions
C17_Witness ==
    /\ Len(cc_log) = 2
    /\ ~cc_log[1].force
    /\ cc_log[1].before = None
    /\ cc_log[1].outcome = "returned"
    /\ cc_log[2].fn = cc_log[1].fn
    /\ cc_log[2].year = cc_log[1].year
    /\ cc_log[2].arg = cc_log[1].arg
    /\ ~cc_log[2].force

\* C18: when get_consumption_data is called with force_preprocessing = True
\* and returns, no cache supplied a value of the result: not its own
\* consumption cache, and not the cache of the total gas industry
\* self-consumption.
C18_ForceBypassesEveryCache ==
    \A i \in 1 .. Len(cc_log) :
        LET c == cc_log[i]
        IN  (/\ c.fn = "get_consumption_data"
             /\ c.force
             /\ c.outcome = "returned") =>
                /\ c.recomputed
                /\ c.result.gas_self = "fresh"

\* C20: when a NaN check or a conservation check fails while
\* get_consumption_data computes, the call raises, returns no cube and
\* leaves the cache file of (year, carrier) as it was before the call.
C20_FailedCheckWritesNoCache ==
    \A i \in 1 .. Len(cc_log) :
        LET c == cc_log[i]
        IN  (/\ c.fn = "get_consumption_data"
             /\ c.outcome \in {"raised_nan", "raised_total"}) =>
                /\ c.result = None
                /\ c.after = c.before
                /\ (i = Len(cc_log) =>
                       CcLoad(cc_cache, CcConsumptionKey(c.year, c.arg)) = c.before)

\* C20 witness: a call without a cache file whose conservation check
\* failed, and a forced call over an existing file whose NaN check failed
C20_Witness ==
    /\ Len(cc_log) = 2
    /\ cc_log[1].fn = "get_consumption_data"
    /\ cc_log[1].outcome = "raised_total"
    /\ cc_log[1].before = None
    /\ cc_log[2].fn = "get_consumption_data"
    /\ cc_log[2].outcome = "raised_nan"
    /\ cc_log[2].force
    /\ cc_log[2].before # None

-----------------------------------------------------------------------------
(* Claims about the year ranges of the data-access functions *)

\* C19: a call of get_temperature_outside_hourly, of
\* get_power_consumption_by_HH_size, of get_income_per_capita or of
\* households_power_consumption with a year outside the function's range
\* raises ValueError and has issued no query.
C19_YearOutsideRangeRaises ==
    (/\ yr_pc # "idle"
     /\ YrOutside(YrRange[yr_call.fn][1], yr_call.year, YrRange[yr_call.fn][2]))
        => /\ yr_pc = "raised_value"
           /\ yr_queries = <<>>

-----------------------------------------------------------------------------
(* Claims about the shift load profiles *)

\* C26: for every year (leap or not, whatever its holidays) and every
\* low > 0, each of the nine shift load profiles returned by
\* get_shift_load_profiles_by_state_and_year sums to 1 over all 15-minute
\* steps of the year.
C26_ShiftProfilesSumToOne ==
    sp_pc = "returned" =>
        LET rows == SpAllCellRows(sp_in)
        IN  \A sp \in SpProfiles :
                SpSum(sp_out[sp], rows, DOMAIN rows) = ROne

\* C26 witness: the profiles of a leap year with a holiday on December 24
\* and a low level that is no half
C26_Witness ==
    /\ sp_pc = "returned"
    /\ sp_in.cal.leap
    /\ CalDec24(sp_in.cal) \in sp_in.cal.holidays
    /\ sp_in.low = Rat(7, 20)
    /\ sp_out["S1_WT_SA"] # sp_out["S2_WT"]

-----------------------------------------------------------------------------
(* Claims about the temperature classes of the CTS heat disaggregation *)

\* the class boundaries -15, -10, ..., 25 in half degrees
HtBoundaries == { 10 * k : k \in -3 .. 5 }

\* the smallest boundary that is not less than x, and the class 100 above 25
HtSmallestBoundary(x) ==
    IF x > 50 THEN 200
    ELSE CHOOSE b \in HtBoundaries :
             /\ b >= x
             /\ \A b2 \in HtBoundaries : b2 >= x => b <= b2

\* C27: when the loop over the region columns of a state is over, every
\* daily allocation temperature of every region is replaced by the smallest
\* boundary of {-15, -10, -5, 0, 5, 10, 15, 20, 25} that is not less than
\* it, and by the class 100 when it exceeds 25: the same rule for every
\* column.
C27_TemperaturesReplacedByBoundary ==
    ht_pc = "done" =>
        \A c \in 1 .. Len(HtRegions), d \in 1 .. HtDays :
            ht_t[c][d] = HtSmallestBoundary(ht_in.temps[c][d])

-----------------------------------------------------------------------------
(* Claims about the gas industry self-consumption cache *)

\* C29: starting from a cache with at most one row per year, after any
\* sequence of calls (years in 2000..2050, forced or not) the cache holds at
\* most one row per year, every row written has the requested year limited
\* to 2007..2019, and a call without force that finds its limited year in
\* the cache writes nothing.
C29_CacheKeepsOneRowPerYear ==
    /\ GsOneRowPerYear(gs_cache)
    /\ gs_log # None =>
        /\ gs_log.written # None =>
            /\ gs_log.written.year \in 2007 .. 2019
            /\ gs_log.written.year = GsClamp(gs_log.year)
        /\ (/\ gs_log.outcome # "raised"
            /\ ~gs_log.force
            /\ GsHasYear(gs_log.before, GsClamp(gs_log.year)))
           => /\ gs_log.written = None
              /\ gs_cache = gs_log.before

\* a forced call has replaced the row of a year the cache already held
C29_Witness ==
    /\ gs_log # None
    /\ gs_log.force
    /\ gs_log.outcome = "computed"
    /\ gs_log.year = 2050
    /\ GsHasYear(gs_log.before, 2019)
    /\ Len(gs_cache) = Len(gs_log.before)
    /\ Len(gs_cache) >= 2

-----------------------------------------------------------------------------
(* Claims about the reconciliation engine *)

\* the UGR total of a carrier over all sectors, in units
EngUgrSum(et) == XSum(UgrOf(eng_in, et), EngSectors)[1]

\* the carriers whose returned cube is at least 1% away from the UGR total
EngOffByOnePercent ==
    { et \in DOMAIN eng_lk.total :
        LET c == CubeSum(eng_lk.total[et])
        IN  ~IsFin(c) \/ Abs(c[1] - EngUgrSum(et)) * 100 >= EngUgrSum(et) }

\* C1 as stated: every returned cube satisfies
\* abs(sum(cube) - sum(national sector totals)) / sum(national sector totals)
\* < 0.01, for each carrier.
C1_ConservationRelativeToNational ==
    eng_pc = "returned" => EngOffByOnePercent = {}

\* the carriers whose cube total c and UGR total u miss
\* abs(u - c) <= 1e-8 + 0.01 * abs(c)
EngOutsideIsClose ==
    { et \in DOMAIN eng_lk.total :
        LET c == CubeSum(eng_lk.total[et])
        IN  ~IsFin(c) \/ Abs(EngUgrSum(et) - c[1]) > Abs(c[1]) \div 100 }

\* C1 amended: for each carrier, every returned cube satisfies
\* abs(sum(national sector totals) - sum(cube)) <= 1e-8 + 0.01 * abs(sum(cube)),
\* the test of np.isclose with rtol = 0.01, which is relative to the cube
\* total and not strict; when no cell is missing and that bound fails for a
\* carrier the call raises ValueError instead of returning.
C1_ConservationIsClose ==
    /\ eng_pc = "returned" => EngOutsideIsClose = {}
    /\ eng_pc = "raised_total" => EngOutsideIsClose # {}

\* C1 witness: a returned cube that is inside the tolerance of np.isclose
\* and at least 1% of the national total away from it
C1_Witness ==
    /\ eng_pc = "returned"
    /\ EngOffByOnePercent # {}
    /\ EngOutsideIsClose = {}

\* x >= 10 as IEEE compares
AtLeastFloor(x) == XLeq(FInt(10), x)

\* C2 as stated: when the engine returns, every cell (sector, region) of
\* every carrier's final specific-consumption matrix is >= 10.
C2_FinalMatrixAtLeastFloor ==
    eng_pc = "returned" =>
        \A et \in DOMAIN eng_lk.spez : \A s \in EngSectors, r \in EngRegions :
            AtLeastFloor(eng_lk.spez[et][s][r])

\* C2 amended: right after every correction step of the sector axis, no cell
\* of the energy-intensive rows of the carrier's working matrix is below 10
\* (every cell is >= 10 or missing); the final matrix is not bound by the
\* floor.
C2_FloorAfterSectorStep ==
    eng_last = "sector_step" =>
        \A s \in DOMAIN eng_spez : \A r \in EngRegions :
            IsNaN(eng_spez[s][r]) \/ AtLeastFloor(eng_spez[s][r])

\* C2 witness: after a sector-axis step, a cell sits on the floor and another
\* cell of the matrix lies above it
C2_Witness ==
    /\ eng_last = "sector_step"
    /\ \E s, t \in DOMAIN eng_spez : \E r, q \in EngRegions :
          /\ eng_spez[s][r] = FInt(10)
          /\ IsFin(eng_spez[t][q])
          /\ eng_spez[t][q][1] > 10 * Scale

\* abs(u - m) <= 0.01 * mean(UGR over the energy-intensive sectors), for the
\* UGR total u and the model total m of sector s
EngWithinSectorTolerance(et, s, m) ==
    /\ IsFin(m)
    /\ Abs(UgrOf(eng_in, et)[s][1] - m[1])
          <= XSum(UgrOf(eng_in, et), EInt(et))[1]
                \div (Cardinality(EInt(et)) * 100)

\* C8 as stated: for each carrier and each energy-intensive sector, the
\* returned cube satisfies abs(UGR_total(s) - sum over regions of cube(s, .))
\* / mean(UGR_total over the energy-intensive sectors) <= 0.01.
C8_ReturnedCubeWithinSectorTolerance ==
    eng_pc = "returned" =>
        \A et \in DOMAIN eng_lk.total : \A s \in EInt(et) :
            /\ XSum(UgrOf(eng_in, et), EInt(et))[1] > 0
            /\ EngWithinSectorTolerance(et, s, RowSum(eng_lk.total[et], s))

\* C8 amended: for each carrier whose last sector-axis loop stopped with
\* every correction factor equal to 1, and each energy-intensive sector s,
\* the cube the loops left satisfies abs(UGR_total(s) - sum over regions of
\* cube(s, .)) <= 0.01 * mean(UGR_total over the energy-intensive sectors);
\* for power and petrol that cube is the returned one.
C8_ToleranceWhenConverged ==
    eng_pc = "returned" =>
        \A et \in DOMAIN eng_done :
            eng_done[et].last = "sector_converged" =>
                \A s \in EInt(et) :
                    /\ EngWithinSectorTolerance(et, s,
                           RowSum(Cube(eng_in, eng_done[et].spez, EInt(et)), s))
                    /\ et # "gas" =>
                           EngWithinSectorTolerance(et, s,
                               RowSum(eng_lk.total[et], s))

\* C8 witness: a returned cube of a carrier whose last sector-axis loop
\* stopped with every factor equal to 1, after the iterations changed the
\* matrix
C8_Witness ==
    /\ eng_pc = "returned"
    /\ \E et \in DOMAIN eng_done :
          /\ eng_done[et].last = "sector_converged"
          /\ \E s \in EInt(et) : eng_done[et].spez[s] # SpezLk(eng_in, et)[s]

\* C9: with non-negative national sector totals, regional anchors and
\* employment, every entry (sector, region) of every returned cube is >= 0.
C9_CubeNonNegative ==
    eng_pc = "returned" =>
        \A et \in DOMAIN eng_lk.total : \A s \in EngSectors, r \in EngRegions :
            XLeq(RZero, eng_lk.total[et][s][r])

\* C9 witness: a returned cube of a carrier whose real energy-intensive
\* total of a region is negative, so that the iterations passed through
\* negative specific consumptions
C9_Witness ==
    /\ eng_pc = "returned"
    /\ \E et \in DOMAIN eng_done : \E r \in EngRegions :
          /\ IsFin(RealEInt(eng_in, et)[r])
          /\ RealEInt(eng_in, et)[r][1] < 0
          /\ \E s \in EInt(et) : eng_done[et].spez[s] # SpezLk(eng_in, et)[s]

\* the steps of one outer iteration: its head, the passes of the region-axis
\* loop and the passes of the sector-axis loop
EngOuterSteps == 2 * PassLimit + 1

\* the steps of one carrier: its head, its outer iterations and its end
EngCarrierSteps == Iterations * EngOuterSteps + 2

\* the steps of the carriers after the one being adjusted, and the finish
EngStepsAfter == (Len(ET) - eng_et) * EngCarrierSteps + 1

\* an upper bound of the steps the engine still takes
EngRank ==
    CASE eng_pc = "start"   -> Len(ET) * EngCarrierSteps + 2
      [] eng_pc = "carrier" -> EngCarrierSteps + EngStepsAfter
      [] eng_pc = "outer"   -> eng_iterations * EngOuterSteps + 1 + EngStepsAfter
      [] eng_pc = "region"  -> (PassLimit - eng_i) + PassLimit
                                   + eng_iterations * EngOuterSteps + 1
                                   + EngStepsAfter
      [] eng_pc = "sector"  -> (PassLimit - eng_k)
                                   + eng_iterations * EngOuterSteps + 1
                                   + EngStepsAfter
      [] eng_pc = "finish"  -> 1
      [] OTHER              -> 0

\* C21: the reconciliation loops terminate for every input: every step of the
\* engine lowers a bound of the steps left that never goes below 0; the
\* outer loop of a carrier starts with 8 iterations left, every outer
\* iteration takes one of them and the carrier ends only when none is left;
\* and neither the region-axis loop nor the sector-axis loop of an outer
\* iteration makes more than 10 passes.
C21_LoopsTerminate ==
    [][/\ EngRank' < EngRank
       /\ EngRank' >= 0
       /\ eng_i' <= PassLimit
       /\ eng_k' <= PassLimit
       /\ (eng_pc = "carrier" => eng_iterations' = Iterations)
       /\ (eng_pc = "outer" /\ eng_pc' = "region"
              => eng_iterations' = eng_iterations - 1)
       /\ (eng_pc = "outer" /\ eng_pc' # "region" => eng_iterations = 0)]_vars

\* C21 witness: the engine has ended after a carrier whose last region-axis
\* loop and last sector-axis loop both used all of their 10 passes
C21_Witness ==
    /\ eng_pc \in {"returned", "raised_nan", "raised_total"}
    /\ eng_i = PassLimit
    /\ eng_k = PassLimit

\* every region's correction factor is exactly 1
EngRegionFactorsAreOne ==
    \A r \in EngRegions :
        RegionFactor(eng_in, ET[eng_et], eng_spez)[r]
            = [val |-> FInt(1), exact |-> TRUE]

\* C22: for each carrier, a pass of the region-axis loop that finds every
\* region's correction factor exactly 1 ends the loop and leaves the
\* specific-consumption matrix as it is: no correction, clamp or rescale is
\* applied.
C22_RegionLoopStopsWhenFactorsAreOne ==
    [][(eng_pc = "region" /\ EngRegionFactorsAreOne)
           => (eng_pc' = "sector" /\ eng_spez' = eng_spez)]_vars

\* the ways a sector-axis loop ends
EngSectorEnds == {"sector_converged", "sector_sum", "sector_budget"}

\* the ways a region-axis loop ends
EngRegionEnds == {"region_converged", "region_sum", "region_budget"}

\* C23: in every outer iteration of every carrier the region-axis loop runs
\* to its end before the sector-axis loop starts and the sector-axis loop
\* starts from the matrix the region-axis loop left (the model totals are the
\* employment times that matrix); the sector-axis loop runs to its end
\* before the outer loop goes on, and the next region-axis loop starts from
\* the matrix the sector-axis loop left; a region-axis loop starts only at
\* the head of a carrier or after a sector-axis loop has ended.
C23_LoopsAlternate ==
    [][/\ (eng_pc = "region" => eng_pc' \in {"region", "sector"})
       /\ (eng_pc = "region" /\ eng_pc' = "sector"
              => /\ eng_last' \in EngRegionEnds
                 /\ eng_spez' = eng_spez
                 /\ eng_k' = 0)
       /\ (eng_pc = "sector" => eng_pc' \in {"sector", "outer"})
       /\ (eng_pc = "sector" /\ eng_pc' = "outer"
              => /\ eng_last' \in EngSectorEnds
                 /\ eng_spez' = eng_spez)
       /\ (eng_pc' = "region" /\ eng_pc # "region"
              => /\ eng_pc = "outer"
                 /\ eng_last \in EngSectorEnds \cup {"none"}
                 /\ eng_last = "none" <=> eng_iterations = Iterations
                 /\ eng_spez' = eng_spez
                 /\ eng_i' = 0)
       /\ (eng_pc' = "sector" /\ eng_pc # "sector" => eng_pc = "region")]_vars

\* C23 witness: the region-axis loop of a later outer iteration corrects the
\* matrix that sector-axis corrections of the iteration before it left
C23_Witness ==
    /\ eng_pc = "region"
    /\ eng_iterations < Iterations - 1
    /\ eng_last = "region_step"
    /\ eng_k > 1

\* sum over the regions of the model totals of the energy-intensive sectors
EngModelTotal == XSum(RegionModel(eng_in, ET[eng_et], eng_spez), EngRegions)

\* sum over the regions of the real energy-intensive totals
EngRealTotal == XSum(RealEInt(eng_in, ET[eng_et]), EngRegions)

\* C24: after every region-axis correction step (multiply by the regional
\* factors, clamp at 10, rescale by sum(real) / sum(model)) the recomputed
\* model total over all regions and energy-intensive sectors equals the sum
\* over the regions of the real energy-intensive totals, wherever the matrix
\* and both totals are finite; "equals" is read with a relative tolerance of
\* 1 %, which covers every rounding.
C24_RegionStepPreservesTotal ==
    (/\ eng_pc = "region"
     /\ eng_last = "region_step"
     /\ \A s \in DOMAIN eng_spez, r \in EngRegions : IsFin(eng_spez[s][r])
     /\ IsFin(EngRealTotal)
     /\ IsFin(EngModelTotal))
        => IsCloseFx(EngModelTotal, EngRealTotal, ValidationTolDen)

\* C25: in the final gas specific-consumption matrix the value of region
\* 3103 (Wolfsburg) is, for every sector, the national gas total of the
\* sector divided by its national employment, whatever the iterations left
\* for that region; the power and petrol matrices keep, for region 3103, the
\* values the iterations left.
C25_WolfsburgGasPatchedToNational ==
    eng_lk # <<>> =>
        /\ \A s \in EngSectors :
              eng_lk.spez["gas"][s][3103] = SpezOf(eng_in, "gas")[s]
        /\ \A et \in {"power", "petrol"} : \A s \in EInt(et) :
              eng_lk.spez[et][s][3103] = eng_done[et].spez[s][3103]

\* C25 witness: the iterations left, for region 3103, a gas value and a
\* power value that differ from the national values
C25_Witness ==
    /\ eng_lk # <<>>
    /\ \E s \in EInt("gas") :
          /\ IsFin(eng_done["gas"].spez[s][3103])
          /\ IsFin(SpezOf(eng_in, "gas")[s])
          /\ eng_done["gas"].spez[s][3103] # SpezOf(eng_in, "gas")[s]
    /\ \E s \in EInt("power") :
          /\ IsFin(eng_lk.spez["power"][s][3103])
          /\ IsFin(SpezOf(eng_in, "power")[s])
          /\ eng_lk.spez["power"][s][3103] # SpezOf(eng_in, "power")[s]

\* the rows of a carrier outside its energy-intensive list
EngOtherRows(et) == EngSectors \ IndBranches(et)

\* C28: for every carrier, every sector outside the carrier's
\* energy-intensive list and every region, the final specific consumption is
\* the initial value, the national total of the sector divided by its
\* national employment; the cube total of such a sector with positive
\* employment is its national total, up to the rounding of that quotient
\* (half a unit per employee).
C28_OtherRowsKeepNationalValue ==
    eng_lk # <<>> =>
        \A et \in DOMAIN eng_lk.spez : \A s \in EngOtherRows(et) :
            /\ \A r \in EngRegions :
                  eng_lk.spez[et][s][r] = SpezOf(eng_in, et)[s]
            /\ TotalEmployees(eng_in, s) > 0 =>
                  LET total == RowSum(eng_lk.total[et], s)
                  IN  /\ IsFin(total)
                      /\ 2 * Abs(total[1] - UgrOf(eng_in, et)[s][1])
                             <= TotalEmployees(eng_in, s)

\* C28 witness: the engine has finished with a carrier whose iterations
\* changed an energy-intensive row while a row outside the list has
\* employees and a positive national total
C28_Witness ==
    /\ eng_lk # <<>>
    /\ \E et \in DOMAIN eng_lk.spez :
          /\ \E s \in EngOtherRows(et) :
                /\ TotalEmployees(eng_in, s) > 0
                /\ eng_in.ugr[et][s] > 0
          /\ \E s \in EInt(et), r \in EngRegions \ {3103} :
                /\ IsFin(eng_lk.spez[et][s][r])
                /\ IsFin(SpezOf(eng_in, et)[s])
                /\ eng_lk.spez[et][s][r] # SpezOf(eng_in, et)[s]

=============================================================================
